---- MODULE Spec2Model ----
(***************************************************************************)
(* The asynchronous logging pipeline of bp3d-logger: producers push        *)
(* commands into a bounded channel (LoggerImpl), one background thread     *)
(* (Thread::run) pops them and writes to the file / std backends and to    *)
(* the in-memory log buffer; Logger::start and Guard::drop restart and     *)
(* terminate that thread.                                                  *)
(***************************************************************************)
EXTENDS Integers, Sequences, FiniteSets, TLC

\* ------------------------------------------------------------------ bounds
\* Capacity of the command channel and of the log buffer (16 in the source,
\* scaled down so that "full" is reached).
BUF_SIZE == 2
\* Shutdown specification: Logger::start calls, records, enable_log_buffer
\* calls.
ShutStarts == 2
ShutRecs == 2
ShutToggle == 1
\* Liveness specification: Logger::start calls (one more than the channel
\* holds), records, flush() calls.
LiveStarts == 3
LiveRecs == 1
LiveFlush == 1
\* Restart specification: with_logger calls, records.
RestartStarts == 2
RestartRecs == 2
\* Disable specification: records, enable / disable_log_buffer calls.
DisableRecs == 1
DisableToggle == 2
\* Trace specification: spans created, polls of the traced future, Entered
\* values made from one span.
MaxSpans == 1
MaxPolls == 2
MaxEnters == 2
\* with_logger calls made by the thread that owns the logger.
MaxStarts == 1
\* Pipeline specification: records created, I/O errors of the file backend.
MaxRecs == 2
MaxIoErr == 1
\* Flush specification: records created, flush() calls, enable_log_buffer
\* calls.
FlushRecs == 1
MaxFlush == 1
FlushToggle == 1
\* Guard specification: Logger::start calls by any thread, records created.
DropStarts == 2
DropRecs == 1
\* Filter specification: records created, set_filter calls.
FilterRecs == 2
MaxSetFilter == 1
\* Log buffer specification: records created, enable/disable calls, read_log
\* calls.
RingRecs == 3
MaxToggle == 1
MaxPops == 3
\* LogMsg specification: capacity of the message buffer in bytes (960 in the
\* source, scaled down so that overflow is reached), characters per string
\* written, write_str calls.
LOG_MSG_SIZE == 4
MaxFragChars == 2
MaxWrites == 3
\* Panic specification: Logger::start calls, records created by the
\* application.
PanicStarts == 2
PanicRecs == 2
\* Backpressure specification: records created.
FullRecs == 3
\* Restart specification: Logger::start calls by any thread.
StartCalls == 3
\* Stdout specification: records created.
StdoutRecs == 2
\* Capture specification: with_logger calls, records created, enable/disable
\* calls.
CapStarts == 2
CapRecs == 2
CapToggle == 1
\* Builders: calls made on one Builder or Logger value before it is started.
MaxBuildCalls == 3
\* Module paths: the longest path given to extract_target_module.
MaxPathLen == 6
\* File handler: write calls made on one FileHandler.
MaxFileWrites == 3
\* Engine: engine::set and engine::get calls begun.
MaxEngineCalls == 3
\* Command order: records sent around one flush().
OrderRecs == 2
OrderFlush == 1
\* Repeated flush: records, flush() calls and file errors.
IdemRecs == 1
IdemFlush == 2
IdemIoErr == 1
\* Handler lists: handlers added to a Builder, records sent to its worker.
MaxHandlers == 2
InstallRecs == 2

\* Two application threads call the API; thread 1 is the one that owns the
\* logger in the specifications where a single thread starts and drops it.
Threads == {1, 2}
Workers == 1..(MaxStarts + DropStarts)

\* ------------------------------------------------------------------ levels
\* A wrong order of the levels: Warn and Info exchanged.
LevelRepr_swapped == [None |-> 0, Error |-> 1, Warn |-> 3, Info |-> 2, Debug |-> 4, Trace |-> 5]

\* Discriminants of enum Level (derive(Ord) orders by discriminant).
LevelRepr == [None |-> 0, Error |-> 1, Warn |-> 2, Info |-> 3, Debug |-> 4, Trace |-> 5]

Levels == {"Error", "Warn", "Info", "Debug", "Trace"}
LevelFilters == {"None"} \cup Levels

\* A record is admitted iff its level is at most the filter.
Admit(lvl, flt) == LevelRepr[lvl] <= LevelRepr[flt]

\* ---------------------------------------------------------------- commands
NoRec == [id |-> 0, src |-> 0, lvl |-> "None"]

\* enum Command; a command other than Log carries the thread that sent it.
Command(type, rec) == [type |-> type, rec |-> rec]
Ctl(type, t) == Command(type, [id |-> 0, src |-> t, lvl |-> "None"])

\* Logger configurations (which backends are Some): the documented
\* Logger::new().add_stdout().add_file(..) and Logger::new().add_stdout().
Both == [file |-> TRUE, std |-> TRUE]
StdOnly == [file |-> FALSE, std |-> TRUE]
NoBackend == [file |-> FALSE, std |-> FALSE]

VARIABLES
    chan,        \* send_ch / recv_ch: the bounded command channel
    enabled,     \* LoggerImpl.enabled
    filter,      \* the level filter consulted before LoggerImpl::log
    thread,      \* LoggerImpl.thread: 0 = None, else the worker's JoinHandle
    lock,        \* holder of the thread mutex, 0 = free
    log_buffer,  \* LoggerImpl.log_buffer (ArrayQueue)
    workers,     \* per spawned Thread: st, cmd, enable_log_buffer, logger
    th,          \* per application thread: pc and the locals of its call
    guards,      \* number of live Guard values
    nextId,      \* id of the next record created
    budget,      \* calls left per kind of operation
    sent,        \* history: records enqueued, in channel order
    events,      \* history: backend invocations made by the workers
    captured,    \* history: records pushed into log_buffer
    popped,      \* history: results of read_log
    calls,       \* history: the log / raw_log calls made, with what each observed
    blocked,     \* history: ids of the records whose send found the channel full
    ENABLE_STDOUT, \* the static backend::ENABLE_STDOUT
    log_msg,     \* one LogMsg value an application thread is formatting
    msgCall,     \* history: the last call made on log_msg, its argument and result
    handlers,    \* Builder.handlers, then the list the worker thread owns
    hworker,     \* the worker thread of a Builder-made logger: pc, next handler
    hcalls,      \* history: the calls made on the handlers, in order
    builder,     \* a Builder value being configured: colors, smart_stderr
    logger,      \* a Logger value (lib.rs) being configured: colors, smart_stderr, std, file
    stdCall,     \* history: the last write made on a std handler or backend
    pathCall,    \* history: the last extract_target_module call and its result
    file_handler, \* a FileHandler: targets, the open files by target
    fileCalls,   \* history: the writes made on file_handler
    ENGINE,      \* the static engine::ENGINE
    ENGINE_INIT_FLAG, \* the static engine::ENGINE_INIT_FLAG
    eth,         \* per application thread: position in an engine call
    ecalls,      \* history: the engine calls that returned, in order
    spans,       \* the ids of the Span values alive
    entereds,    \* per span id: the Entered values the application holds
    traced,      \* a TracedFuture: its state and its span field
    tcalls,      \* history: the calls made on the Tracer of the engine, in order
    nextInstance \* the instance number the next span_create returns

\* The state of the command pipeline of LoggerImpl.
pipeline == <<chan, enabled, filter, thread, lock, log_buffer, workers, th, guards,
              nextId, budget, sent, events, captured, popped, calls>>

\* The state outside the command pipeline.
\* The state of a logger made by a Builder.
hstate == <<handlers, hworker, hcalls>>

\* The builders, the path helper, the file handler and the engine.
cfgstate == <<builder, logger, stdCall>>
filestate == <<file_handler, fileCalls>>
enginestate == <<ENGINE, ENGINE_INIT_FLAG, eth, ecalls>>
tracestate == <<spans, entereds, traced, tcalls, nextInstance>>
newstate == <<cfgstate, pathCall, filestate, enginestate, tracestate>>

\* The pipeline and the statics and values used with it.
core == <<pipeline, blocked, ENABLE_STDOUT, log_msg, msgCall>>

aux == <<blocked, ENABLE_STDOUT, log_msg, msgCall, hstate, newstate>>

vars == <<chan, enabled, filter, thread, lock, log_buffer, workers, th, guards,
          nextId, budget, sent, events, captured, popped, calls, aux>>

\* ----------------------------------------------------------------- helpers
Range(s) == {s[i] : i \in 1..Len(s)}

\* crossbeam bounded(BUF_SIZE): send blocks while the channel is full.
CanSend(ch) == Len(ch) < BUF_SIZE

send(ch, cmd) == Append(ch, cmd)

\* A wrong channel: the newest command is received first.
recv_newest(ch) == [val |-> ch[Len(ch)], rest |-> SubSeq(ch, 1, Len(ch) - 1)]

\* Receiver::recv: the oldest command of a non-empty channel.
recv(ch) == [val |-> Head(ch), rest |-> Tail(ch)]

\* A wrong ring: on a full queue the newest element is replaced.
force_push_newest(q, v) ==
    IF Len(q) >= BUF_SIZE THEN Append(SubSeq(q, 1, Len(q) - 1), v) ELSE Append(q, v)

\* ArrayQueue::force_push: on a full queue the oldest element is replaced.
force_push(q, v) == IF Len(q) >= BUF_SIZE THEN Append(Tail(q), v) ELSE Append(q, v)

\* A wrong ring: pop returns the newest element.
pop_newest(q) ==
    IF q = <<>> THEN [val |-> NoRec, rest |-> q]
                ELSE [val |-> q[Len(q)], rest |-> SubSeq(q, 1, Len(q) - 1)]

\* ArrayQueue::pop: the oldest element, if any.
pop(q) == IF q = <<>> THEN [val |-> NoRec, rest |-> q] ELSE [val |-> Head(q), rest |-> Tail(q)]

\* An entry of the history of backend calls: the call op made by worker w
\* for record id (0: a record of the logger itself), whether it returned Ok,
\* and whether it produced output.
Ev(op, w, id, ok) == [op |-> op, w |-> w, id |-> id, ok |-> ok, out |-> ok]

IoErrs == Cardinality({i \in 1..Len(events) : ~events[i].ok})

\* Outcomes of a call into the file backend: Ok, or Err while errors remain.
IoOutcomes == IF IoErrs < budget.ioerr THEN BOOLEAN ELSE {TRUE}

NoWorker == [st |-> "none", cmd |-> Ctl("None", 0), enable_log_buffer |-> FALSE,
             logger |-> NoBackend]

NoLocals == [pc |-> "idle", rec |-> NoRec, h |-> 0, cfg |-> NoBackend, snap |-> 0, wsnap |-> {}]

Idle(t) == th[t].pc \in {"idle", "fl_ret", "fl_skip", "dr_ret"}

Goto(t, pc) == th' = [th EXCEPT ![t].pc = pc]

Spawned == {w \in Workers : workers[w].st # "none"}

Budget(nstart, nrec, nflush, ntoggle, npop, nioerr, nfilter) ==
    [start |-> nstart, rec |-> nrec, flush |-> nflush, toggle |-> ntoggle, pop |-> npop,
     ioerr |-> nioerr, filter |-> nfilter]

\* ----------------------------------------------------------------- LogMsg
\* Bytes are numbers 0..255; the buffer is MaybeUninit, a cell never written
\* holds Uninit.
Uninit == -1

Min(a, b) == IF a < b THEN a ELSE b

\* The UTF-8 encodings of 'a' (1 byte), U+00E9 (2 bytes) and U+20AC (3 bytes).
Chars == {<<97>>, <<195, 169>>, <<226, 130, 172>>}

\* The strings of at most n characters, as their UTF-8 bytes.
RECURSIVE Strings(_)
Strings(n) == IF n = 0 THEN {<<>>}
              ELSE Strings(n - 1) \cup {s \o c : s \in Strings(n - 1), c \in Chars}

\* Location::new values and OffsetDateTime values used for the metadata.
Locations == {[module_path |-> "test", file |-> "file.c", line |-> 1],
              [module_path |-> "bp3d_logger::internal", file |-> "internal.rs", line |-> 7]}
Times == {0, 1}

\* LogMsg::with_time: empty message over an uninitialised buffer.
with_time(location, time, level) ==
    [location |-> location, time |-> time, msg_len |-> 0, level |-> level,
     buffer |-> [i \in 1..LOG_MSG_SIZE |-> Uninit]]

\* A wrong write: the whole of buf is counted as written.
write_uncut(m, buf) ==
    LET len == Min(Len(buf), LOG_MSG_SIZE - m.msg_len) IN
        [msg |-> [m EXCEPT !.buffer = [i \in 1..LOG_MSG_SIZE |->
                                          IF m.msg_len < i /\ i <= m.msg_len + len
                                             THEN buf[i - m.msg_len] ELSE @[i]],
                           !.msg_len = @ + len],
         ret |-> Len(buf)]

\* LogMsg::write: copy the first min(buf.len(), LOG_MSG_SIZE - msg_len) bytes
\* of buf behind the message and return that count. msg_len + len is at most
\* LOG_MSG_SIZE, so the u32 addition does not wrap.
write(m, buf) ==
    LET len == Min(Len(buf), LOG_MSG_SIZE - m.msg_len) IN
        [msg |-> IF len > 0
                    THEN [m EXCEPT !.buffer = [i \in 1..LOG_MSG_SIZE |->
                                                  IF m.msg_len < i /\ i <= m.msg_len + len
                                                     THEN buf[i - m.msg_len] ELSE @[i]],
                                   !.msg_len = @ + len]
                    ELSE m,
         ret |-> len]

\* A wrong clear: the level is reset as well.
clear_level(m) == [m EXCEPT !.msg_len = 0, !.level = "None"]

\* LogMsg::clear: msg_len = 0; the buffer and the control fields stay.
clear(m) == [m EXCEPT !.msg_len = 0]

\* LogMsg::set_time.
set_time(m, time) == [m EXCEPT !.time = time]

\* LogMsg::msg: the first msg_len bytes of the buffer, taken as a str.
msg(m) == [i \in 1..m.msg_len |-> m.buffer[i]]

\* The last call made on log_msg: op, its argument, its result, the LogMsg
\* before the call, the strings written since the message was last empty
\* (concatenated and cut at the capacity), and the write_str calls left.
NoCall == [op |-> "new", buf |-> <<>>, ret |-> 0, before |-> with_time("", 0, "None"),
           whole |-> <<>>, left |-> 0]

Cut(bytes) == SubSeq(bytes, 1, Min(Len(bytes), LOG_MSG_SIZE))

\* ---------------------------------------------------- builders and statics
\* enum Colors; Colors::default() is Disabled.
Colors == {"Enabled", "Disabled", "Auto"}

\* Option<T>: None is the empty sequence, Some(v) is <<v>>.
None == <<>>
Some(v) == <<v>>

\* Builder::default() of builder.rs; the handlers are the variable handlers.
\* n counts the builder calls made.
DefaultBuilder == [colors |-> "Disabled", smart_stderr |-> TRUE, n |-> 0, op |-> "new"]

\* Logger::default() of lib.rs.
DefaultLogger == [colors |-> "Disabled", smart_stderr |-> TRUE, std |-> None, file |-> None,
                  n |-> 0, op |-> "new"]

\* No write on a std handler or backend has been made.
NoStdCall == [by |-> "none", level |-> "None", smart_stderr |-> FALSE, colors |-> "Disabled",
              isatty |-> FALSE, enabled |-> FALSE, dest |-> "none"]

\* No extract_target_module call has been made.
NoPathCall == [fn |-> "none", base_string |-> <<>>, target |-> <<>>, module |-> None]

\* static mut ENGINE = &void::VoidDebugger {}.
VoidDebugger == "VoidDebugger"

\* A &'static dyn Engine is two words: the data pointer and the vtable.
Ref(engine) == [data |-> engine, vtable |-> engine]

NoEngineCall == [pc |-> "idle", op |-> "none", engine |-> VoidDebugger, seen |-> 0]

\* The builders are fresh, no file is open, the engine is the default one and
\* its flag is false.
\* The span ids span_create hands out.
SpanIds == 1..MaxSpans

\* No TracedFuture has been made yet.
NoFuture == [st |-> "none", span |-> None, polls |-> 0]

InitNew ==
    /\ builder = DefaultBuilder
    /\ logger = DefaultLogger
    /\ stdCall = NoStdCall
    /\ pathCall = NoPathCall
    /\ file_handler = [targets |-> {}]
    /\ fileCalls = <<>>
    /\ ENGINE = Ref(VoidDebugger)
    /\ ENGINE_INIT_FLAG = FALSE
    /\ eth = [t \in Threads |-> NoEngineCall]
    /\ ecalls = <<>>
    /\ spans = {}
    /\ entereds = [id \in SpanIds |-> 0]
    /\ traced = NoFuture
    /\ tcalls = <<>>
    /\ nextInstance = 1

\* ------------------------------------------------------------------- Init
\* LoggerImpl::new: empty channel and log buffer, disabled, no thread.
InitPipeline(b) ==
    /\ chan = <<>>
    /\ enabled = FALSE
    /\ filter = "Info"
    /\ thread = 0
    /\ lock = 0
    /\ log_buffer = <<>>
    /\ workers = [w \in Workers |-> NoWorker]
    /\ th = [t \in Threads |-> NoLocals]
    /\ guards = 0
    /\ nextId = 1
    /\ budget = b
    /\ sent = <<>>
    /\ events = <<>>
    /\ captured = <<>>
    /\ popped = <<>>
    /\ calls = {}
    /\ blocked = {}
    /\ handlers = <<>>
    /\ hworker = [pc |-> "build", i |-> 1, term |-> FALSE]
    /\ hcalls = <<>>
    /\ InitNew

\* ENABLE_STDOUT starts true; no LogMsg call has been made.
InitWith(b) ==
    /\ InitPipeline(b)
    /\ ENABLE_STDOUT = TRUE
    /\ log_msg = with_time(CHOOSE l \in Locations : l.line = 1, 0, "Info")
    /\ msgCall = NoCall

Init == InitWith(Budget(MaxStarts, MaxRecs, 0, 0, 0, MaxIoErr, 0))

\* ----------------------------------------------------------------- filter
\* set_filter: store the new level filter.
set_filter(t, flt) ==
    /\ Idle(t)
    /\ budget.filter > 0
    /\ flt # filter
    /\ budget' = [budget EXCEPT !.filter = @ - 1]
    /\ filter' = flt
    /\ th' = [th EXCEPT ![t] = NoLocals]
    /\ UNCHANGED <<aux, chan, enabled, thread, lock, log_buffer, workers, guards,
                   nextId, sent, events, captured, popped, calls>>

\* A wrong enabled test: the flag is ignored.
is_enabled_always == TRUE

\* LoggerImpl::is_enabled: enabled.load(Acquire).
is_enabled == enabled

\* ------------------------------------------------- producers: log, raw_log
\* LoggerImpl::log up to its early return: the record is built and handed to
\* low_level_log only when the level passes the filter and the logger is
\* enabled.
log(t, lvl) ==
    /\ Idle(t)
    /\ budget.rec > 0
    /\ budget' = [budget EXCEPT !.rec = @ - 1]
    /\ LET r == [id |-> nextId, src |-> t, lvl |-> lvl] IN
        /\ calls' = calls \cup {[rec |-> r, raw |-> FALSE, flt |-> filter, en |-> enabled]}
        /\ IF Admit(lvl, filter) /\ is_enabled
              THEN th' = [th EXCEPT ![t] = [NoLocals EXCEPT !.pc = "log_send", !.rec = r]]
              ELSE th' = [th EXCEPT ![t] = NoLocals]
    /\ nextId' = nextId + 1
    /\ UNCHANGED <<aux, chan, enabled, filter, thread, lock, log_buffer, workers, guards,
                   sent, events, captured, popped>>

\* low_level_log finds the channel full: send parks the thread until the
\* worker has received a command. Only the history changes.
low_level_log_block(t) ==
    /\ th[t].pc = "log_send"
    /\ ~CanSend(chan)
    /\ th[t].rec.id \notin blocked
    /\ blocked' = blocked \cup {th[t].rec.id}
    /\ UNCHANGED <<pipeline, hstate, newstate, ENABLE_STDOUT, log_msg, msgCall>>

\* A wrong send: try_send, which gives the record up when the channel is
\* full.
low_level_log_try(t) ==
    /\ th[t].pc = "log_send"
    /\ chan' = IF CanSend(chan) THEN send(chan, Command("Log", th[t].rec)) ELSE chan
    /\ sent' = IF CanSend(chan) THEN Append(sent, th[t].rec) ELSE sent
    /\ th' = [th EXCEPT ![t] = NoLocals]
    /\ UNCHANGED <<aux, enabled, filter, thread, lock, log_buffer, workers, guards,
                   nextId, budget, events, captured, popped, calls>>

\* LoggerImpl::low_level_log: a blocking send of Log(msg).
low_level_log(t) ==
    /\ th[t].pc = "log_send"
    /\ CanSend(chan)
    /\ chan' = send(chan, Command("Log", th[t].rec))
    /\ sent' = Append(sent, th[t].rec)
    /\ th' = [th EXCEPT ![t] = NoLocals]
    /\ UNCHANGED <<aux, enabled, filter, thread, lock, log_buffer, workers, guards,
                   nextId, budget, events, captured, popped, calls>>

\* A wrong raw_log: the record is dropped while the logger is disabled.
raw_log_checked(t, lvl) ==
    /\ Idle(t)
    /\ budget.rec > 0
    /\ CanSend(chan)
    /\ budget' = [budget EXCEPT !.rec = @ - 1]
    /\ LET r == [id |-> nextId, src |-> t, lvl |-> lvl] IN
        /\ calls' = calls \cup {[rec |-> r, raw |-> TRUE, flt |-> filter, en |-> enabled]}
        /\ chan' = IF enabled THEN send(chan, Command("Log", r)) ELSE chan
        /\ sent' = IF enabled THEN Append(sent, r) ELSE sent
    /\ th' = [th EXCEPT ![t] = NoLocals]
    /\ nextId' = nextId + 1
    /\ UNCHANGED <<aux, enabled, filter, thread, lock, log_buffer, workers, guards,
                   events, captured, popped>>

\* raw_log: the record goes to low_level_log unconditionally.
raw_log(t, lvl) ==
    /\ Idle(t)
    /\ budget.rec > 0
    /\ CanSend(chan)
    /\ budget' = [budget EXCEPT !.rec = @ - 1]
    /\ LET r == [id |-> nextId, src |-> t, lvl |-> lvl] IN
        /\ calls' = calls \cup {[rec |-> r, raw |-> TRUE, flt |-> filter, en |-> enabled]}
        /\ chan' = send(chan, Command("Log", r))
        /\ sent' = Append(sent, r)
    /\ th' = [th EXCEPT ![t] = NoLocals]
    /\ nextId' = nextId + 1
    /\ UNCHANGED <<aux, enabled, filter, thread, lock, log_buffer, workers, guards,
                   events, captured, popped>>

\* ------------------------------------------------------------------ flush
\* LoggerImpl::flush, the enabled test.
flush_check(t) ==
    /\ Idle(t)
    /\ budget.flush > 0
    /\ budget' = [budget EXCEPT !.flush = @ - 1]
    /\ th' = [th EXCEPT ![t] = [NoLocals EXCEPT !.pc = IF is_enabled THEN "fl_send" ELSE "fl_skip"]]
    /\ UNCHANGED <<aux, chan, enabled, filter, thread, lock, log_buffer, workers, guards,
                   nextId, sent, events, captured, popped, calls>>

\* LoggerImpl::flush, send(Command::Flush). snap remembers the records
\* enqueued before this Flush.
flush_send(t) ==
    /\ th[t].pc = "fl_send"
    /\ CanSend(chan)
    /\ chan' = send(chan, Ctl("Flush", t))
    /\ th' = [th EXCEPT ![t].pc = "fl_wait", ![t].snap = Len(sent)]
    /\ UNCHANGED <<aux, enabled, filter, thread, lock, log_buffer, workers, guards,
                   nextId, budget, sent, events, captured, popped, calls>>

\* A wrong flush: it returns without waiting for the channel to empty.
flush_nowait(t) ==
    /\ th[t].pc = "fl_wait"
    /\ Goto(t, "fl_ret")
    /\ UNCHANGED <<aux, chan, enabled, filter, thread, lock, log_buffer, workers, guards,
                   nextId, budget, sent, events, captured, popped, calls>>

\* LoggerImpl::flush, while !send_ch.is_empty() {}: leaves the loop once the
\* channel is observed empty.
flush_wait(t) ==
    /\ th[t].pc = "fl_wait"
    /\ chan = <<>>
    /\ Goto(t, "fl_ret")
    /\ UNCHANGED <<aux, chan, enabled, filter, thread, lock, log_buffer, workers, guards,
                   nextId, budget, sent, events, captured, popped, calls>>

\* ------------------------------------------------------------- log buffer
\* enable_log_buffer(): send(Command::EnableLogBuffer).
enable_log_buffer(t) ==
    /\ Idle(t)
    /\ budget.toggle > 0
    /\ CanSend(chan)
    /\ budget' = [budget EXCEPT !.toggle = @ - 1]
    /\ chan' = send(chan, Ctl("EnableLogBuffer", t))
    /\ th' = [th EXCEPT ![t] = NoLocals]
    /\ UNCHANGED <<aux, enabled, filter, thread, lock, log_buffer, workers, guards,
                   nextId, sent, events, captured, popped, calls>>

\* disable_log_buffer(): send(Command::DisableLogBuffer), then clear.
disable_log_buffer(t) ==
    /\ Idle(t)
    /\ budget.toggle > 0
    /\ CanSend(chan)
    /\ budget' = [budget EXCEPT !.toggle = @ - 1]
    /\ chan' = send(chan, Ctl("DisableLogBuffer", t))
    /\ th' = [th EXCEPT ![t] = [NoLocals EXCEPT !.pc = "db_clear"]]
    /\ UNCHANGED <<aux, enabled, filter, thread, lock, log_buffer, workers, guards,
                   nextId, sent, events, captured, popped, calls>>

\* A wrong clear_log_buffer: a single pop instead of the loop.
clear_log_buffer_once(t) ==
    /\ th[t].pc \in {"db_clear", "dr_clear"}
    /\ log_buffer' = pop(log_buffer).rest
    /\ Goto(t, IF th[t].pc = "dr_clear" THEN "dr_ret" ELSE "idle")
    /\ UNCHANGED <<aux, chan, enabled, filter, thread, lock, workers, guards,
                   nextId, budget, sent, events, captured, popped, calls>>

\* LoggerImpl::clear_log_buffer: one iteration of while pop().is_some() {}.
clear_log_buffer(t) ==
    /\ th[t].pc \in {"db_clear", "dr_clear"}
    /\ log_buffer' = pop(log_buffer).rest
    /\ IF log_buffer = <<>>
          THEN Goto(t, IF th[t].pc = "dr_clear" THEN "dr_ret" ELSE "idle")
          ELSE UNCHANGED th
    /\ UNCHANGED <<aux, chan, enabled, filter, thread, lock, workers, guards,
                   nextId, budget, sent, events, captured, popped, calls>>

\* LoggerImpl::read_log: pop one record, None when the buffer is empty.
read_log(t) ==
    /\ Idle(t)
    /\ budget.pop > 0
    /\ budget' = [budget EXCEPT !.pop = @ - 1]
    /\ log_buffer' = pop(log_buffer).rest
    /\ popped' = Append(popped, pop(log_buffer).val)
    /\ th' = [th EXCEPT ![t] = NoLocals]
    /\ UNCHANGED <<aux, chan, enabled, filter, thread, lock, workers, guards,
                   nextId, sent, events, captured, calls>>

\* ----------------------------------------------------------------- worker
\* Thread::run: recv() hands the next command to exec_commad.
run(w) ==
    /\ workers[w].st = "recv"
    /\ chan # <<>>
    /\ chan' = recv(chan).rest
    /\ workers' = [workers EXCEPT ![w].st = "exec", ![w].cmd = recv(chan).val]
    /\ UNCHANGED <<aux, enabled, filter, thread, lock, log_buffer, th, guards,
                   nextId, budget, sent, events, captured, popped, calls>>

\* A wrong helper: the std backend is written twice.
StdWrite_twice(w, id) ==
    IF workers[w].logger.std THEN <<Ev("std", w, id, TRUE), Ev("std", w, id, TRUE)>> ELSE <<>>

\* A wrong std backend: it prints whatever ENABLE_STDOUT is.
StdWrite_always(w, id) == IF workers[w].logger.std THEN <<Ev("std", w, id, TRUE)>> ELSE <<>>

\* The helper log(): a call on the std backend, nothing when it is None.
\* StdBackend::write returns Ok without printing while ENABLE_STDOUT is false.
StdWrite(w, id) ==
    IF workers[w].logger.std
       THEN <<[Ev("std", w, id, TRUE) EXCEPT !.out = ENABLE_STDOUT]>>
       ELSE <<>>

\* A wrong worker: the record is pushed whatever enable_log_buffer is.
ExecLog_always(w, ok) ==
    LET r == workers[w].cmd.rec
        fileEv == IF workers[w].logger.file
                     THEN <<Ev("file", w, r.id, ok)>> \o (IF ok THEN <<>> ELSE StdWrite(w, 0))
                     ELSE <<>>
    IN  /\ events' = events \o <<Ev("exec", w, r.id, TRUE)>> \o fileEv \o StdWrite(w, r.id)
        /\ log_buffer' = force_push(log_buffer, r)
        /\ captured' = Append(captured, r)
        /\ workers' = [workers EXCEPT ![w].st = "recv"]

\* A wrong worker: a file error ends the execution of the record and the
\* worker.
ExecLog_abort(w, ok) ==
    LET r == workers[w].cmd.rec IN
        IF workers[w].logger.file /\ ~ok
           THEN /\ events' = events \o <<Ev("exec", w, r.id, TRUE), Ev("file", w, r.id, ok)>>
                /\ workers' = [workers EXCEPT ![w].st = "done"]
                /\ UNCHANGED <<log_buffer, captured>>
           ELSE /\ events' = events \o <<Ev("exec", w, r.id, TRUE)>>
                                   \o (IF workers[w].logger.file THEN <<Ev("file", w, r.id, ok)>> ELSE <<>>)
                                   \o StdWrite(w, r.id)
                /\ IF workers[w].enable_log_buffer
                      THEN /\ log_buffer' = force_push(log_buffer, r)
                           /\ captured' = Append(captured, r)
                      ELSE UNCHANGED <<log_buffer, captured>>
                /\ workers' = [workers EXCEPT ![w].st = "recv"]

\* exec_commad, Command::Log: file backend (an Err is reported on the std
\* backend), std backend, then force_push when the log buffer is enabled.
ExecLog(w, ok) ==
    LET r == workers[w].cmd.rec
        fileEv == IF workers[w].logger.file
                     THEN <<Ev("file", w, r.id, ok)>> \o (IF ok THEN <<>> ELSE StdWrite(w, 0))
                     ELSE <<>>
    IN  /\ events' = events \o <<Ev("exec", w, r.id, TRUE)>> \o fileEv \o StdWrite(w, r.id)
        /\ IF workers[w].enable_log_buffer
              THEN /\ log_buffer' = force_push(log_buffer, r)
                   /\ captured' = Append(captured, r)
              ELSE UNCHANGED <<log_buffer, captured>>
        /\ workers' = [workers EXCEPT ![w].st = "recv"]

\* A wrong worker: every Flush writes a line on the std backend.
ExecFlush_report(w, ok) ==
    /\ events' = events \o (IF workers[w].logger.file THEN <<Ev("flush", w, 0, ok)>> ELSE <<>>)
                         \o <<Ev("std", w, 0, TRUE)>>
    /\ workers' = [workers EXCEPT ![w].st = "recv"]
    /\ UNCHANGED <<log_buffer, captured>>

\* exec_commad, Command::Flush: only the file backend is flushed; an Err is
\* reported on the std backend.
ExecFlush(w, ok) ==
    /\ events' = events \o (IF workers[w].logger.file
                               THEN <<Ev("flush", w, 0, ok)>> \o (IF ok THEN <<>> ELSE StdWrite(w, 0))
                               ELSE <<>>)
    /\ workers' = [workers EXCEPT ![w].st = "recv"]
    /\ UNCHANGED <<log_buffer, captured>>

\* Thread::exec_commad on the command run() received; Terminate ends run().
exec_commad(w) ==
    /\ workers[w].st = "exec"
    /\ LET type == workers[w].cmd.type IN
        \/ /\ type = "Log"
           /\ \E ok \in (IF workers[w].logger.file THEN IoOutcomes ELSE {TRUE}) : ExecLog(w, ok)
        \/ /\ type = "Flush"
           /\ \E ok \in (IF workers[w].logger.file THEN IoOutcomes ELSE {TRUE}) : ExecFlush(w, ok)
        \/ /\ type = "Terminate"
           /\ workers' = [workers EXCEPT ![w].st = "done"]
           /\ UNCHANGED <<events, log_buffer, captured>>
        \/ /\ type \in {"EnableLogBuffer", "DisableLogBuffer"}
           /\ workers' = [workers EXCEPT ![w].st = "recv",
                                         ![w].enable_log_buffer = (type = "EnableLogBuffer")]
           /\ events' = Append(events, Ev(type, w, 0, TRUE))
           /\ UNCHANGED <<log_buffer, captured>>
    /\ UNCHANGED <<aux, chan, enabled, filter, thread, lock, th, guards,
                   nextId, budget, sent, popped, calls>>

\* A backend call panics (println! panics when stdout cannot be written):
\* the worker thread unwinds out of exec_commad and is gone.
panic(w) ==
    /\ workers[w].st = "exec"
    /\ workers[w].cmd.type \in {"Log", "Flush"}
    /\ workers' = [workers EXCEPT ![w].st = "panicked"]
    /\ UNCHANGED <<aux, chan, enabled, filter, thread, lock, log_buffer, th, guards,
                   nextId, budget, sent, events, captured, popped, calls>>

\* ------------------------------------------------------------------ start
\* std::thread::spawn of Thread::new(logger, recv_ch, log_buffer): capture
\* starts disabled; the handle is stored in LoggerImpl.thread.
Spawn(cfg) ==
    LET w == Cardinality(Spawned) + 1 IN
        /\ workers' = [workers EXCEPT ![w] = [NoWorker EXCEPT !.st = "recv", !.logger = cfg]]
        /\ thread' = w

\* Logger::start -> start_new_thread: lock the thread mutex and take the
\* previous handle; send Terminate to a previous worker, or spawn at once
\* and release the mutex when there is none.
start_new_thread(t, cfg) ==
    /\ Idle(t)
    /\ budget.start > 0
    /\ lock = 0
    /\ budget' = [budget EXCEPT !.start = @ - 1]
    /\ IF thread # 0
          THEN /\ CanSend(chan)
               /\ chan' = send(chan, Ctl("Terminate", t))
               /\ lock' = t
               /\ thread' = 0
               /\ th' = [th EXCEPT ![t] = [NoLocals EXCEPT !.pc = "st_join", !.h = thread, !.cfg = cfg]]
               /\ UNCHANGED workers
          ELSE /\ Spawn(cfg)
               /\ th' = [th EXCEPT ![t] = [NoLocals EXCEPT !.pc = "st_enable"]]
               /\ UNCHANGED <<chan, lock>>
    /\ UNCHANGED <<aux, enabled, filter, log_buffer, guards,
                   nextId, sent, events, captured, popped, calls>>

\* A wrong start: the new worker is spawned without joining the previous
\* one.
start_nojoin(t) ==
    /\ th[t].pc = "st_join"
    /\ Spawn(th[t].cfg)
    /\ lock' = 0
    /\ th' = [th EXCEPT ![t] = [NoLocals EXCEPT !.pc = "st_enable"]]
    /\ UNCHANGED <<aux, chan, enabled, filter, log_buffer, guards,
                   nextId, budget, sent, events, captured, popped, calls>>

\* start_new_thread: handle.join() returns once the previous worker has left
\* run(), with Err (flag = true) if it panicked; then the new worker is
\* spawned and the mutex released.
start_join(t) ==
    /\ th[t].pc = "st_join"
    /\ workers[th[t].h].st \in {"done", "panicked"}
    /\ Spawn(th[t].cfg)
    /\ lock' = 0
    /\ LET flag == workers[th[t].h].st = "panicked" IN
           th' = [th EXCEPT ![t] = [NoLocals EXCEPT !.pc = IF flag THEN "st_panic" ELSE "st_enable"]]
    /\ UNCHANGED <<aux, chan, enabled, filter, log_buffer, guards,
                   nextId, budget, sent, events, captured, popped, calls>>

\* start_new_thread, if flag: send Command::Log of the Error record "The
\* logging thread has panicked!" (src 0: the logger itself). The history
\* keeps which worker had just been spawned.
start_panic_log(t) ==
    /\ th[t].pc = "st_panic"
    /\ CanSend(chan)
    /\ LET r == [id |-> nextId, src |-> 0, lvl |-> "Error"] IN
        /\ chan' = send(chan, Command("Log", r))
        /\ sent' = Append(sent, r)
        /\ calls' = calls \cup {[rec |-> r, raw |-> TRUE, flt |-> filter, en |-> enabled]}
        /\ events' = Append(events, Ev("start_report", thread, r.id, TRUE))
    /\ nextId' = nextId + 1
    /\ Goto(t, "st_enable")
    /\ UNCHANGED <<aux, enabled, filter, thread, lock, log_buffer, workers, guards,
                   budget, captured, popped>>

\* Logger::start: enable(true) and return the Guard.
start_enable(t) ==
    /\ th[t].pc = "st_enable"
    /\ enabled' = TRUE
    /\ guards' = guards + 1
    /\ Goto(t, "idle")
    /\ UNCHANGED <<aux, chan, filter, thread, lock, log_buffer, workers,
                   nextId, budget, sent, events, captured, popped, calls>>

\* ------------------------------------------------------------- Guard drop
\* Guard::drop: enable(false). snap and wsnap remember the records enqueued
\* and the workers spawned when the drop began.
drop(t) ==
    /\ Idle(t)
    /\ guards > 0
    /\ guards' = guards - 1
    /\ enabled' = FALSE
    /\ th' = [th EXCEPT ![t] = [NoLocals EXCEPT !.pc = "dr_lock", !.snap = Len(sent),
                                               !.wsnap = Spawned]]
    /\ UNCHANGED <<aux, chan, filter, thread, lock, log_buffer, workers,
                   nextId, budget, sent, events, captured, popped, calls>>

\* A wrong terminate: Flush is sent whether or not a handle exists.
terminate_unchecked(t) ==
    /\ th[t].pc = "dr_lock"
    /\ lock = 0
    /\ CanSend(chan)
    /\ chan' = send(chan, Ctl("Flush", t))
    /\ IF thread # 0
          THEN /\ lock' = t
               /\ thread' = 0
               /\ th' = [th EXCEPT ![t].pc = "dr_term", ![t].h = thread]
          ELSE /\ Goto(t, "dr_disbuf")
               /\ UNCHANGED <<lock, thread>>
    /\ UNCHANGED <<aux, enabled, filter, log_buffer, workers, guards,
                   nextId, budget, sent, events, captured, popped, calls>>

\* LoggerImpl::terminate: lock the mutex and take the handle; with a handle,
\* send(Command::Flush); with none the function returns at once.
terminate(t) ==
    /\ th[t].pc = "dr_lock"
    /\ lock = 0
    /\ IF thread # 0
          THEN /\ CanSend(chan)
               /\ chan' = send(chan, Ctl("Flush", t))
               /\ lock' = t
               /\ thread' = 0
               /\ th' = [th EXCEPT ![t].pc = "dr_term", ![t].h = thread]
          ELSE /\ Goto(t, "dr_disbuf")
               /\ UNCHANGED <<chan, lock, thread>>
    /\ UNCHANGED <<aux, enabled, filter, log_buffer, workers, guards,
                   nextId, budget, sent, events, captured, popped, calls>>

\* terminate: send(Command::Terminate).
terminate_send_terminate(t) ==
    /\ th[t].pc = "dr_term"
    /\ CanSend(chan)
    /\ chan' = send(chan, Ctl("Terminate", t))
    /\ Goto(t, "dr_join")
    /\ UNCHANGED <<aux, enabled, filter, thread, lock, log_buffer, workers, guards,
                   nextId, budget, sent, events, captured, popped, calls>>

\* A wrong terminate: the commands left in the channel go away with the
\* worker.
terminate_join_drain(t) ==
    /\ th[t].pc = "dr_join"
    /\ workers[th[t].h].st = "done"
    /\ lock' = 0
    /\ chan' = <<>>
    /\ Goto(t, "dr_disbuf")
    /\ UNCHANGED <<aux, enabled, filter, thread, log_buffer, workers, guards,
                   nextId, budget, sent, events, captured, popped, calls>>

\* terminate: handle.join(), then the mutex guard is released.
terminate_join(t) ==
    /\ th[t].pc = "dr_join"
    /\ workers[th[t].h].st = "done"
    /\ lock' = 0
    /\ Goto(t, "dr_disbuf")
    /\ UNCHANGED <<aux, chan, enabled, filter, thread, log_buffer, workers, guards,
                   nextId, budget, sent, events, captured, popped, calls>>

\* Guard::drop: enable_log_buffer(false), followed by clear_log_buffer.
drop_disable_log_buffer(t) ==
    /\ th[t].pc = "dr_disbuf"
    /\ CanSend(chan)
    /\ chan' = send(chan, Ctl("DisableLogBuffer", t))
    /\ Goto(t, "dr_clear")
    /\ UNCHANGED <<aux, enabled, filter, thread, lock, log_buffer, workers, guards,
                   nextId, budget, sent, events, captured, popped, calls>>

\* ------------------------------------------------------------------- Next
\* The worker thread(s).
WorkerStep ==
    \/ \E w \in Workers : run(w)
    \/ \E w \in Workers : exec_commad(w)

\* Logger::start and Guard::drop, called by thread t.
Lifecycle(t, cfgs) ==
    \/ \E cfg \in cfgs : start_new_thread(t, cfg)
    \/ start_join(t)
    \/ start_enable(t)
    \/ drop(t)
    \/ terminate(t)
    \/ terminate_send_terminate(t)
    \/ terminate_join(t)
    \/ drop_disable_log_buffer(t)
    \/ clear_log_buffer(t)

\* with_logger: start the logger, run the application, drop the Guard; the
\* next with_logger begins once the previous Guard is gone.
with_logger(t, cfg) ==
    /\ guards = 0
    /\ start_new_thread(t, cfg)

\* The thread that owns the logger through with_logger.
Owner(t, cfgs) ==
    \/ \E cfg \in cfgs : with_logger(t, cfg)
    \/ start_enable(t)
    \/ drop(t)
    \/ terminate(t)
    \/ terminate_send_terminate(t)
    \/ terminate_join(t)
    \/ drop_disable_log_buffer(t)
    \/ clear_log_buffer(t)

\* Pipeline specification: thread 1 starts and drops the logger, every
\* thread logs records; the file backend may fail.
Next ==
    \/ WorkerStep
    \/ Owner(1, {Both, StdOnly})
    \/ \E t \in Threads : log(t, "Error")
    \/ \E t \in Threads : raw_log(t, "Error")
    \/ \E t \in Threads : low_level_log(t)

Spec == Init /\ [][Next]_vars

\* Flush specification: thread 1 owns a logger with both backends, enables
\* the log buffer and sends records; thread 2 logs and calls flush().
InitFlush == InitWith(Budget(MaxStarts, FlushRecs, MaxFlush, FlushToggle, 0, 0, 0))

NextFlush ==
    \/ WorkerStep
    \/ Owner(1, {Both})
    \/ enable_log_buffer(1)
    \/ \E t \in Threads : raw_log(t, "Error")
    \/ log(2, "Error")
    \/ low_level_log(2)
    \/ flush_check(2)
    \/ flush_send(2)
    \/ flush_wait(2)

SpecFlush == InitFlush /\ [][NextFlush]_vars

\* Guard specification: every thread starts loggers (with or without a file
\* backend), drops Guards and logs.
InitDrop == InitWith(Budget(DropStarts, DropRecs, 0, 0, 0, 0, 0))

NextDrop ==
    \/ WorkerStep
    \/ \E t \in Threads : Lifecycle(t, {Both, StdOnly})
    \/ \E t \in Threads : log(t, "Error")
    \/ \E t \in Threads : raw_log(t, "Error")
    \/ \E t \in Threads : low_level_log(t)

SpecDrop == InitDrop /\ [][NextDrop]_vars

\* Filter specification: thread 1 starts the logger and keeps its Guard,
\* thread 2 logs records of every level and changes the filter.
InitFilter == InitWith(Budget(MaxStarts, FilterRecs, 0, 0, 0, 0, MaxSetFilter))

NextFilter ==
    \/ WorkerStep
    \/ with_logger(1, Both)
    \/ start_enable(1)
    \/ \E flt \in LevelFilters : set_filter(2, flt)
    \/ \E lvl \in Levels : log(2, lvl)
    \/ raw_log(2, "Trace")
    \/ low_level_log(2)

SpecFilter == InitFilter /\ [][NextFilter]_vars

\* Log buffer specification: thread 1 owns the logger, toggles the log buffer
\* and logs; thread 2 reads the log buffer.
InitRing == InitWith(Budget(MaxStarts, RingRecs, 0, MaxToggle, MaxPops, 0, 0))

NextRing ==
    \/ WorkerStep
    \/ Owner(1, {Both})
    \/ enable_log_buffer(1)
    \/ disable_log_buffer(1)
    \/ raw_log(1, "Info")
    \/ read_log(2)

SpecRing == InitRing /\ [][NextRing]_vars

\* Capture specification: thread 1 runs with_logger twice and toggles the log
\* buffer, thread 2 sends records.
InitCapture == InitWith(Budget(CapStarts, CapRecs, 0, CapToggle, 0, 0, 0))

NextCapture ==
    \/ WorkerStep
    \/ Owner(1, {Both})
    \/ enable_log_buffer(1)
    \/ disable_log_buffer(1)
    \/ raw_log(2, "Info")

SpecCapture == InitCapture /\ [][NextCapture]_vars

\* ------------------------------------------------------- LogMsg operations
\* impl Write for LogMsg, write_str: write(s.as_bytes()), result ignored.
write_str(s) ==
    /\ msgCall.left > 0
    /\ log_msg' = write(log_msg, s).msg
    /\ msgCall' = [op |-> "write_str", buf |-> s, ret |-> write(log_msg, s).ret,
                   before |-> log_msg, whole |-> Cut(msgCall.whole \o s),
                   left |-> msgCall.left - 1]
    /\ UNCHANGED <<pipeline, hstate, newstate, blocked, ENABLE_STDOUT>>

\* A call of LogMsg::clear.
call_clear ==
    /\ msgCall.op # "clear"
    /\ log_msg' = clear(log_msg)
    /\ msgCall' = [msgCall EXCEPT !.op = "clear", !.buf = <<>>, !.ret = 0,
                                  !.before = log_msg, !.whole = <<>>]
    /\ UNCHANGED <<pipeline, hstate, newstate, blocked, ENABLE_STDOUT>>

\* A call of LogMsg::set_time.
call_set_time(time) ==
    /\ time # log_msg.time
    /\ log_msg' = set_time(log_msg, time)
    /\ msgCall' = [msgCall EXCEPT !.op = "set_time", !.buf = <<>>, !.ret = 0,
                                  !.before = log_msg]
    /\ UNCHANGED <<pipeline, hstate, newstate, blocked, ENABLE_STDOUT>>

\* LogMsg specification: a message is created by LogMsg::with_time, then
\* written with write!, cleared and re-timed in any order.
InitMsg ==
    /\ InitPipeline(Budget(0, 0, 0, 0, 0, 0, 0))
    /\ ENABLE_STDOUT = TRUE
    /\ \E location \in Locations, level \in {"Info", "Error"} : log_msg = with_time(location, 0, level)
    /\ msgCall = [NoCall EXCEPT !.left = MaxWrites]

NextMsg ==
    \/ \E s \in Strings(MaxFragChars) : write_str(s)
    \/ call_clear
    \/ \E time \in Times : call_set_time(time)

SpecMsg == InitMsg /\ [][NextMsg]_vars

\* Panic specification: thread 1 starts the logger repeatedly and keeps its
\* Guards, thread 2 sends records, and a backend call of the worker may
\* panic.
InitPanic == InitWith(Budget(PanicStarts, PanicRecs, 0, 0, 0, 0, 0))

NextPanic ==
    \/ WorkerStep
    \/ \E w \in Workers : panic(w)
    \/ start_new_thread(1, Both)
    \/ start_join(1)
    \/ start_panic_log(1)
    \/ start_enable(1)
    \/ raw_log(2, "Info")

SpecPanic == InitPanic /\ [][NextPanic]_vars

\* Backpressure specification: thread 1 owns a logger, every thread logs;
\* the history records the sends that found the channel full.
InitFull == InitWith(Budget(MaxStarts, FullRecs, 0, 0, 0, 0, 0))

NextFull ==
    \/ WorkerStep
    \/ Owner(1, {StdOnly})
    \/ \E t \in Threads : log(t, "Error")
    \/ \E t \in Threads : low_level_log_block(t)
    \/ \E t \in Threads : low_level_log(t)

SpecFull == InitFull /\ [][NextFull]_vars

\* Restart specification: every thread starts loggers and drops Guards in
\* any order.
InitStarts == InitWith(Budget(StartCalls, 0, 0, 0, 0, 0, 0))

NextStarts ==
    \/ WorkerStep
    \/ \E t \in Threads : Lifecycle(t, {StdOnly})

SpecStarts == InitStarts /\ [][NextStarts]_vars

\* -------------------------------------------------------------- stdout flag
\* enable_stdout(): ENABLE_STDOUT.store(true).
enable_stdout ==
    /\ ~ENABLE_STDOUT
    /\ ENABLE_STDOUT' = TRUE
    /\ UNCHANGED <<pipeline, hstate, newstate, blocked, log_msg, msgCall>>

\* disable_stdout(): ENABLE_STDOUT.store(false).
disable_stdout ==
    /\ ENABLE_STDOUT
    /\ ENABLE_STDOUT' = FALSE
    /\ UNCHANGED <<pipeline, hstate, newstate, blocked, log_msg, msgCall>>

\* Stdout specification: thread 1 owns a logger with both backends, thread 2
\* sends records, and the stdout flag is toggled at any time.
InitStdout == InitWith(Budget(MaxStarts, StdoutRecs, 0, 0, 0, 0, 0))

NextStdout ==
    \/ WorkerStep
    \/ Owner(1, {Both})
    \/ raw_log(2, "Info")
    \/ enable_stdout
    \/ disable_stdout

SpecStdout == InitStdout /\ [][NextStdout]_vars

\* ---------------------------------------------------------------- handlers
\* The value of StdHandler.enable before install: MaybeUninit::uninit().
UninitFlag == "uninit"

\* A handler that has no flag field (FileHandler, LogQueueHandler).
NoFlag == "none"

HandlerKinds == {"std", "file", "queue"}

\* StdHandler::new, FileHandler::new, LogQueueHandler::new.
new_handler(kind) == [kind |-> kind, enable |-> IF kind = "std" THEN UninitFlag ELSE NoFlag]

\* A wrong StdHandler::install: the flag is not stored.
install_noop(h, flag) == h

\* Handler::install: StdHandler stores a clone of the flag, FileHandler and
\* LogQueueHandler do nothing.
install(h, flag) ==
    IF h.kind = "std" THEN [h EXCEPT !.enable = flag] ELSE h

\* Whether write() on h reads an initialised value.
Installed(h) == h.enable # UninitFlag

\* What a write() call on h can emit. StdHandler::write reads the flag with
\* assume_init_ref: reading it before install is undefined, any outcome.
WriteOutcomes(h) ==
    IF h.kind # "std" THEN {TRUE}
    ELSE IF Installed(h) THEN {ENABLE_STDOUT}
    ELSE BOOLEAN

HCall(op, i, id, init, out) == [op |-> op, h |-> i, id |-> id, init |-> init, out |-> out]

\* Builder::add_handler: push onto Builder.handlers.
add_handler(kind) ==
    /\ hworker.pc = "build"
    /\ Len(handlers) < MaxHandlers
    /\ handlers' = Append(handlers, new_handler(kind))
    /\ UNCHANGED <<pipeline, blocked, ENABLE_STDOUT, log_msg, msgCall, newstate, hworker, hcalls>>

\* Builder::start: the logger is made and its worker thread is spawned with
\* the handler list.
start ==
    /\ hworker.pc = "build"
    /\ hworker' = [hworker EXCEPT !.pc = "install"]
    /\ UNCHANGED <<pipeline, blocked, ENABLE_STDOUT, log_msg, msgCall, newstate, handlers, hcalls>>

\* The worker thread, step 1: install(enable_stdout_flag) on the next handler
\* of the list; after the last one the thread enters its loop.
worker_install ==
    /\ hworker.pc = "install"
    /\ IF hworker.i <= Len(handlers)
          THEN /\ handlers' = [handlers EXCEPT ![hworker.i] = install(@, "ENABLE_STDOUT")]
               /\ hcalls' = Append(hcalls, HCall("install", hworker.i, 0, TRUE, FALSE))
               /\ hworker' = [hworker EXCEPT !.i = @ + 1]
          ELSE /\ hworker' = [hworker EXCEPT !.pc = "loop"]
               /\ UNCHANGED <<handlers, hcalls>>
    /\ UNCHANGED <<pipeline, blocked, ENABLE_STDOUT, log_msg, msgCall, newstate>>

\* The worker thread, step 2: recv a command; Log(r) calls write(&r) on every
\* handler in order, Terminate leaves the loop.
worker_loop ==
    /\ hworker.pc = "loop"
    /\ chan # <<>>
    /\ chan' = recv(chan).rest
    /\ LET cmd == recv(chan).val IN
        /\ hworker' = [hworker EXCEPT !.pc = IF cmd.type = "Terminate" THEN "exit" ELSE @]
        /\ IF cmd.type = "Log"
              THEN \E undef \in BOOLEAN :
                     /\ \A i \in 1..Len(handlers) :
                            Installed(handlers[i]) \/ undef \in WriteOutcomes(handlers[i])
                     /\ hcalls' = hcalls \o
                            [i \in 1..Len(handlers) |->
                                HCall("write", i, cmd.rec.id, Installed(handlers[i]),
                                      IF Installed(handlers[i])
                                         THEN CHOOSE o \in WriteOutcomes(handlers[i]) : TRUE
                                         ELSE undef)]
              ELSE UNCHANGED hcalls
    /\ UNCHANGED <<enabled, filter, thread, lock, log_buffer, workers, th, guards,
                   nextId, budget, sent, events, captured, popped, calls,
                   blocked, ENABLE_STDOUT, log_msg, msgCall, newstate, handlers>>

\* Dropping the logger: a blocking send of Terminate.
drop_logger(t) ==
    /\ hworker.pc # "build"
    /\ ~hworker.term
    /\ Idle(t)
    /\ CanSend(chan)
    /\ chan' = send(chan, Ctl("Terminate", t))
    /\ hworker' = [hworker EXCEPT !.term = TRUE]
    /\ UNCHANGED <<enabled, filter, thread, lock, log_buffer, workers, th, guards,
                   nextId, budget, sent, events, captured, popped, calls,
                   blocked, ENABLE_STDOUT, log_msg, msgCall, newstate, handlers, hcalls>>

\* Handler specification: thread 1 builds a handler list, starts the logger
\* and drops it; thread 2 sends records while the logger lives; the stdout
\* flag is toggled at any time.
InitInstall == InitWith(Budget(0, InstallRecs, 0, 0, 0, 0, 0))

NextInstall ==
    \/ \E kind \in HandlerKinds : add_handler(kind)
    \/ start
    \/ worker_install
    \/ worker_loop
    \/ hworker.pc # "build" /\ ~hworker.term /\ raw_log(2, "Info")
    \/ drop_logger(1)
    \/ enable_stdout
    \/ disable_stdout

SpecInstall == InitInstall /\ [][NextInstall]_vars

\* ------------------------------------------------------ Builder and Logger
\* A wrong get_stream: smart_stderr redirects every level.
get_stream_all(smart_stderr, level) == IF smart_stderr THEN "Stderr" ELSE "Stdout"

\* StdHandler::get_stream and StdBackend::get_stream (the same code).
get_stream(smart_stderr, level) ==
    IF ~smart_stderr THEN "Stdout"
    ELSE IF level = "Error" THEN "Stderr"
    ELSE "Stdout"

\* Where a write of the std handler or backend ends up: nowhere while
\* ENABLE_STDOUT is false; otherwise on the stream chosen by get_stream,
\* through termcolor (StandardStream::stderr / stdout) or through eprintln! /
\* println!, depending on colors and on whether the stream is a terminal.
std_write(h, level, isatty) ==
    IF ~ENABLE_STDOUT THEN "none"
    ELSE LET stream == get_stream(h.smart_stderr, level)
             use_termcolor == CASE h.colors = "Disabled" -> FALSE
                                [] h.colors = "Enabled" -> TRUE
                                [] OTHER -> isatty
         IN IF use_termcolor
               THEN (IF stream = "Stderr" THEN "stderr" ELSE "stdout")
               ELSE (IF stream = "Stderr" THEN "stderr" ELSE "stdout")

\* StdHandler::new(smart_stderr, colors): the flag is not yet installed.
StdHandler_new(smart_stderr, colors) ==
    [kind |-> "std", enable |-> UninitFlag, smart_stderr |-> smart_stderr, colors |-> colors]

\* FileHandler::new(path).
FileHandler_new ==
    [kind |-> "file", enable |-> NoFlag, smart_stderr |-> FALSE, colors |-> "Disabled"]

\* StdBackend::new(smart_stderr, colors).
StdBackend_new(smart_stderr, colors) == [smart_stderr |-> smart_stderr, colors |-> colors]

\* A Builder or Logger value can be configured until it is started and
\* written to; one of the two is configured in a behaviour.
CanBuild(b, other) ==
    /\ b.n < MaxBuildCalls
    /\ other.n = 0
    /\ stdCall = NoStdCall

Called(b, op) == [b EXCEPT !.n = @ + 1, !.op = op]

\* Builder::colors.
Builder_colors(state) ==
    /\ CanBuild(builder, logger)
    /\ builder' = [Called(builder, "colors") EXCEPT !.colors = state]
    /\ UNCHANGED <<core, tracestate, hstate, logger, stdCall, pathCall, filestate, enginestate>>

\* Builder::smart_stderr.
Builder_smart_stderr(flag) ==
    /\ CanBuild(builder, logger)
    /\ builder' = [Called(builder, "smart_stderr") EXCEPT !.smart_stderr = flag]
    /\ UNCHANGED <<core, tracestate, hstate, logger, stdCall, pathCall, filestate, enginestate>>

\* Builder::add_stdout: add_handler(StdHandler::new(smart_stderr, colors)).
Builder_add_stdout ==
    /\ CanBuild(builder, logger)
    /\ builder' = Called(builder, "add_stdout")
    /\ handlers' = Append(handlers, StdHandler_new(builder.smart_stderr, builder.colors))
    /\ UNCHANGED <<core, tracestate, hworker, hcalls, logger, stdCall, pathCall, filestate, enginestate>>

\* Builder::add_file: add_handler(FileHandler::new(logs)) when the log
\* directory is found, else an error on stderr.
Builder_add_file(get_logs) ==
    /\ CanBuild(builder, logger)
    /\ builder' = Called(builder, "add_file")
    /\ handlers' = IF get_logs THEN Append(handlers, FileHandler_new) ELSE handlers
    /\ UNCHANGED <<core, tracestate, hworker, hcalls, logger, stdCall, pathCall, filestate, enginestate>>

\* Logger::colors (lib.rs).
Logger_colors(state) ==
    /\ CanBuild(logger, builder)
    /\ logger' = [Called(logger, "colors") EXCEPT !.colors = state]
    /\ UNCHANGED <<core, tracestate, hstate, builder, stdCall, pathCall, filestate, enginestate>>

\* Logger::smart_stderr (lib.rs).
Logger_smart_stderr(flag) ==
    /\ CanBuild(logger, builder)
    /\ logger' = [Called(logger, "smart_stderr") EXCEPT !.smart_stderr = flag]
    /\ UNCHANGED <<core, tracestate, hstate, builder, stdCall, pathCall, filestate, enginestate>>

\* Logger::add_stdout (lib.rs): self.std = Some(StdBackend::new(..)).
Logger_add_stdout ==
    /\ CanBuild(logger, builder)
    /\ logger' = [Called(logger, "add_stdout") EXCEPT
                    !.std = Some(StdBackend_new(logger.smart_stderr, logger.colors))]
    /\ UNCHANGED <<core, tracestate, hstate, builder, stdCall, pathCall, filestate, enginestate>>

\* Logger::add_file (lib.rs): self.file = Some(FileBackend::new(logs)) when
\* the log directory is found.
Logger_add_file(get_logs) ==
    /\ CanBuild(logger, builder)
    /\ logger' = [Called(logger, "add_file") EXCEPT
                    !.file = IF get_logs THEN Some("FileBackend") ELSE @]
    /\ UNCHANGED <<core, tracestate, hstate, builder, stdCall, pathCall, filestate, enginestate>>

\* The handlers of a lib.rs Logger in the order exec_commad writes to them:
\* the file backend, then the std backend.
LoggerHandlers(l) ==
    [i \in 1..Len(l.file) |-> FileHandler_new] \o
    [i \in 1..Len(l.std) |-> StdHandler_new(l.std[i].smart_stderr, l.std[i].colors)]

StdCall(by, h, level, isatty) ==
    [by |-> by, level |-> level, smart_stderr |-> h.smart_stderr, colors |-> h.colors,
     isatty |-> isatty, enabled |-> ENABLE_STDOUT, dest |-> std_write(h, level, isatty)]

\* StdHandler::write on the i-th handler of the list, a std handler.
StdHandler_write(i, level, isatty) ==
    /\ builder.n > 0
    /\ i \in 1..Len(handlers)
    /\ handlers[i].kind = "std"
    /\ stdCall' = StdCall("StdHandler", handlers[i], level, isatty)
    /\ stdCall' # stdCall
    /\ UNCHANGED <<core, tracestate, hstate, builder, logger, pathCall, filestate, enginestate>>

\* StdBackend::write on the std backend of the Logger.
StdBackend_write(level, isatty) ==
    /\ logger.n > 0
    /\ logger.std # None
    /\ stdCall' = StdCall("StdBackend", logger.std[1], level, isatty)
    /\ stdCall' # stdCall
    /\ UNCHANGED <<core, tracestate, hstate, builder, logger, pathCall, filestate, enginestate>>

\* Builder specification: a Builder (builder.rs) or a Logger (lib.rs) is
\* configured, then records of every level are written to its std handler
\* while the stdout flag is toggled.
InitBuild == InitWith(Budget(0, 0, 0, 0, 0, 0, 0))

NextBuild ==
    \/ \E state \in Colors : Builder_colors(state)
    \/ \E flag \in BOOLEAN : Builder_smart_stderr(flag)
    \/ Builder_add_stdout
    \/ \E get_logs \in BOOLEAN : Builder_add_file(get_logs)
    \/ \E state \in Colors : Logger_colors(state)
    \/ \E flag \in BOOLEAN : Logger_smart_stderr(flag)
    \/ Logger_add_stdout
    \/ \E get_logs \in BOOLEAN : Logger_add_file(get_logs)
    \/ \E i \in 1..MaxBuildCalls, level \in Levels, isatty \in BOOLEAN :
          StdHandler_write(i, level, isatty)
    \/ \E level \in Levels, isatty \in BOOLEAN : StdBackend_write(level, isatty)
    \/ (builder.n > 0 \/ logger.n > 0) /\ enable_stdout
    \/ (builder.n > 0 \/ logger.n > 0) /\ disable_stdout

SpecBuild == InitBuild /\ [][NextBuild]_vars

\* ------------------------------------------------------------ module paths
\* Module paths are strings over an identifier character and the colon.
PathChars == {"a", ":"}

Paths == UNION {[1..k -> PathChars] : k \in 0..MaxPathLen}

main == <<"m", "a", "i", "n">>

\* Whether "::" starts at index v of s (indices from 1).
SepAt(s, v) == v >= 1 /\ v < Len(s) /\ s[v] = ":" /\ s[v + 1] = ":"

\* A wrong find: the index of the last "::".
rfind(s) ==
    IF \E v \in 1..Len(s) : SepAt(s, v)
       THEN Some(CHOOSE v \in 1..Len(s) : SepAt(s, v) /\ \A u \in (v + 1)..Len(s) : ~SepAt(s, u))
       ELSE None

\* str::find("::"): the index of the first "::", None when there is none.
find(s) ==
    IF \E v \in 1..Len(s) : SepAt(s, v)
       THEN Some(CHOOSE v \in 1..Len(s) : SepAt(s, v) /\ \A u \in 1..(v - 1) : ~SepAt(s, u))
       ELSE None

\* Option::unwrap_or.
unwrap_or(o, default) == IF o = None THEN default ELSE o[1]

\* The body shared by the two extract_target_module functions: the target
\* and the module as an Option.
target_module(base_string) ==
    LET v == find(base_string) IN
    [target |-> IF v = None THEN base_string ELSE SubSeq(base_string, 1, v[1] - 1),
     module |-> IF v = None THEN None
                ELSE Some(SubSeq(base_string, v[1] + 2, Len(base_string)))]

\* util::extract_target_module: (target, module.unwrap_or("main")).
util_extract_target_module(base_string) ==
    /\ pathCall' = [fn |-> "util", base_string |-> base_string,
                    target |-> target_module(base_string).target,
                    module |-> Some(unwrap_or(target_module(base_string).module, main))]
    /\ pathCall' # pathCall
    /\ UNCHANGED <<core, tracestate, hstate, cfgstate, filestate, enginestate>>

\* internal::extract_target_module: (target, module), the caller
\* (LoggerImpl::log) formats module.unwrap_or("main").
internal_extract_target_module(base_string) ==
    /\ pathCall' = [fn |-> "internal", base_string |-> base_string,
                    target |-> target_module(base_string).target,
                    module |-> target_module(base_string).module]
    /\ pathCall' # pathCall
    /\ UNCHANGED <<core, tracestate, hstate, cfgstate, filestate, enginestate>>

\* Path specification: the two functions are called on every module path.
InitPath == InitWith(Budget(0, 0, 0, 0, 0, 0, 0))

NextPath ==
    \/ \E base_string \in Paths : util_extract_target_module(base_string)
    \/ \E base_string \in Paths : internal_extract_target_module(base_string)

SpecPath == InitPath /\ [][NextPath]_vars

\* ------------------------------------------------------------- FileHandler
\* The targets records are written for.
FileTargets == {"app", "lib"}

\* A wrong get_create_open_file: the target is entered in the map although
\* the open failed.
get_create_open_file_keep(fh, target, open_ok) ==
    [fh |-> [fh EXCEPT !.targets = @ \cup {target}],
     open |-> IF target \in fh.targets THEN "none" ELSE IF open_ok THEN "ok" ELSE "err",
     ok |-> target \in fh.targets \/ open_ok]

\* A wrong get_create_open_file: the file is opened on every call.
get_create_open_file_reopen(fh, target, open_ok) ==
    IF open_ok
       THEN [fh |-> [fh EXCEPT !.targets = @ \cup {target}], open |-> "ok", ok |-> TRUE]
       ELSE [fh |-> fh, open |-> "err", ok |-> FALSE]

\* FileHandler::get_create_open_file: a target without a handle is opened;
\* on failure `?` returns the error before anything is inserted.
get_create_open_file(fh, target, open_ok) ==
    IF target \notin fh.targets
       THEN IF open_ok
               THEN [fh |-> [fh EXCEPT !.targets = @ \cup {target}], open |-> "ok", ok |-> TRUE]
               ELSE [fh |-> fh, open |-> "err", ok |-> FALSE]
       ELSE [fh |-> fh, open |-> "none", ok |-> TRUE]

\* FileHandler::write: the line is written if the file could be obtained;
\* neither the error of the open nor that of writeln! is reported.
FileHandler_write(target, open_ok, write_ok) ==
    /\ Len(fileCalls) < MaxFileWrites
    /\ LET r == get_create_open_file(file_handler, target, open_ok) IN
        /\ file_handler' = r.fh
        /\ fileCalls' = Append(fileCalls,
                               [target |-> target, open |-> r.open,
                                written |-> r.ok /\ write_ok, reported |-> FALSE,
                                handle |-> target \in r.fh.targets])
    /\ UNCHANGED <<core, tracestate, hstate, cfgstate, pathCall, enginestate>>

\* File specification: records of two targets are written to a FileHandler
\* whose opens and writes may fail.
InitFile == InitWith(Budget(0, 0, 0, 0, 0, 0, 0))

NextFile ==
    \E target \in FileTargets, open_ok \in BOOLEAN, write_ok \in BOOLEAN :
        FileHandler_write(target, open_ok, write_ok)

SpecFile == InitFile /\ [][NextFile]_vars

\* ------------------------------------------------------------------ engine
\* The engines an application passes to engine::set.
Engines == {VoidDebugger, "E1", "E2"}

EngineWords == {"data", "vtable"}

\* Calls begun so far: those that returned and those in progress.
EngineCalls == Len(ecalls) + Cardinality({t \in Threads : eth[t].pc # "idle"})

ECall(t, op, engine, ret) ==
    [t |-> t, op |-> op, engine |-> engine, ret |-> ret, seen |-> eth[t].seen]

\* A wrong set: the flag is not looked at.
set_load_unchecked(t, engine) ==
    /\ eth[t].pc = "idle"
    /\ EngineCalls < MaxEngineCalls
    /\ eth' = [eth EXCEPT ![t] = [pc |-> "set_write", op |-> "set", engine |-> engine,
                                  seen |-> Len(ecalls)]]
    /\ UNCHANGED <<ecalls, ENGINE, ENGINE_INIT_FLAG>>
    /\ UNCHANGED <<core, tracestate, hstate, cfgstate, pathCall, filestate>>

\* engine::set, the load of ENGINE_INIT_FLAG: return false if it is set.
set_load(t, engine) ==
    /\ eth[t].pc = "idle"
    /\ EngineCalls < MaxEngineCalls
    /\ IF ENGINE_INIT_FLAG
          THEN /\ ecalls' = Append(ecalls, [ECall(t, "set", engine, FALSE)
                                              EXCEPT !.seen = Len(ecalls)])
               /\ eth' = eth
          ELSE /\ eth' = [eth EXCEPT ![t] = [pc |-> "set_write", op |-> "set",
                                             engine |-> engine, seen |-> Len(ecalls)]]
               /\ ecalls' = ecalls
    /\ UNCHANGED <<ENGINE, ENGINE_INIT_FLAG>>
    /\ UNCHANGED <<core, tracestate, hstate, cfgstate, pathCall, filestate>>

\* engine::set, `ENGINE = engine`: a plain store to a static mut of two
\* words, one word in this step (in either order), the other in the next.
set_write(t, word) ==
    /\ eth[t].pc = "set_write"
    /\ ENGINE' = [ENGINE EXCEPT ![word] = eth[t].engine]
    /\ eth' = [eth EXCEPT ![t].pc = IF word = "data" THEN "set_write_vtable"
                                                     ELSE "set_write_data"]
    /\ UNCHANGED <<ecalls, ENGINE_INIT_FLAG>>
    /\ UNCHANGED <<core, tracestate, hstate, cfgstate, pathCall, filestate>>

\* The store of the second word.
set_write_rest(t) ==
    /\ eth[t].pc \in {"set_write_vtable", "set_write_data"}
    /\ ENGINE' = IF eth[t].pc = "set_write_vtable"
                    THEN [ENGINE EXCEPT !.vtable = eth[t].engine]
                    ELSE [ENGINE EXCEPT !.data = eth[t].engine]
    /\ eth' = [eth EXCEPT ![t].pc = "set_store"]
    /\ UNCHANGED <<ecalls, ENGINE_INIT_FLAG>>
    /\ UNCHANGED <<core, tracestate, hstate, cfgstate, pathCall, filestate>>

\* engine::set, ENGINE_INIT_FLAG.store(true) and return true.
set_store(t) ==
    /\ eth[t].pc = "set_store"
    /\ ENGINE_INIT_FLAG' = TRUE
    /\ ecalls' = Append(ecalls, ECall(t, "set", eth[t].engine, TRUE))
    /\ eth' = [eth EXCEPT ![t] = NoEngineCall]
    /\ UNCHANGED ENGINE
    /\ UNCHANGED <<core, tracestate, hstate, cfgstate, pathCall, filestate>>

\* engine::get(): a read of ENGINE; the caller then calls a logging,
\* profiling or tracing method through the vtable it read.
get(t) ==
    /\ eth[t].pc = "idle"
    /\ EngineCalls < MaxEngineCalls
    /\ eth' = [eth EXCEPT ![t] = [pc |-> "use", op |-> "use", engine |-> ENGINE.vtable,
                                  seen |-> Len(ecalls)]]
    /\ UNCHANGED <<ecalls, ENGINE, ENGINE_INIT_FLAG>>
    /\ UNCHANGED <<core, tracestate, hstate, cfgstate, pathCall, filestate>>

\* A method of the engine: every method of VoidDebugger stores true into
\* ENGINE_INIT_FLAG before it returns; another engine does not touch it.
use(t) ==
    /\ eth[t].pc = "use"
    /\ ENGINE_INIT_FLAG' = IF eth[t].engine = VoidDebugger THEN TRUE ELSE ENGINE_INIT_FLAG
    /\ ecalls' = Append(ecalls, ECall(t, "use", eth[t].engine, TRUE))
    /\ eth' = [eth EXCEPT ![t] = NoEngineCall]
    /\ UNCHANGED ENGINE
    /\ UNCHANGED <<core, tracestate, hstate, cfgstate, pathCall, filestate>>

\* Engine specification: the threads set engines and use the current one.
InitEngine == InitWith(Budget(0, 0, 0, 0, 0, 0, 0))

NextEngine ==
    \E t \in Threads :
        \/ \E engine \in Engines : set_load(t, engine)
        \/ \E word \in EngineWords : set_write(t, word)
        \/ set_write_rest(t)
        \/ set_store(t)
        \/ get(t)
        \/ use(t)

SpecEngine == InitEngine /\ [][NextEngine]_vars

\* Repeated-flush specification: thread 1 owns a logger (with or without a
\* file backend), thread 2 sends a record and calls flush() repeatedly; the
\* file backend may fail.
InitIdem == InitWith(Budget(MaxStarts, IdemRecs, IdemFlush, 0, 0, IdemIoErr, 0))

NextIdem ==
    \/ WorkerStep
    \/ Owner(1, {Both, StdOnly})
    \/ raw_log(2, "Error")
    \/ flush_check(2)
    \/ flush_send(2)
    \/ flush_wait(2)

SpecIdem == InitIdem /\ [][NextIdem]_vars

\* Order specification: thread 1 owns a logger with both backends, both
\* threads send records and thread 2 calls flush().
InitOrder == InitWith(Budget(MaxStarts, OrderRecs, OrderFlush, 0, 0, 0, 0))

NextOrder ==
    \/ WorkerStep
    \/ Owner(1, {Both})
    \/ \E t \in Threads : raw_log(t, "Error")
    \/ flush_check(2)
    \/ flush_send(2)
    \/ flush_wait(2)

SpecOrder == InitOrder /\ [][NextOrder]_vars

\* ============================================================ properties
RecOf(id) == (CHOOSE c \in calls : c.rec.id = id).rec

SentPos(id) == CHOOSE k \in 1..Len(sent) : sent[k].id = id

Count(op, w, id) ==
    Cardinality({i \in 1..Len(events) :
                    events[i].op = op /\ events[i].w = w /\ events[i].id = id})

InChan(r) == Cardinality({i \in 1..Len(chan) : chan[i] = Command("Log", r)})

InFlight(r) ==
    Cardinality({w \in Workers : workers[w].st = "exec" /\ workers[w].cmd = Command("Log", r)})

Pending(r) == \E t \in Threads : th[t].pc = "log_send" /\ th[t].rec = r

Executions(r) == {i \in 1..Len(events) : events[i].op = "exec" /\ events[i].id = r.id}

\* The writes a handler received, as positions of the history.
Writes(op) == {i \in 1..Len(events) : events[i].op = op /\ events[i].id # 0}

\* Records thread t has enqueued.
SentBy(t) == {r \in Range(sent) : r.src = t}

\* Every configured backend of worker w has received record r exactly once,
\* a backend that is None never.
WrittenBy(w, r) ==
    /\ Count("file", w, r.id) = (IF workers[w].logger.file THEN 1 ELSE 0)
    /\ Count("std", w, r.id) = (IF workers[w].logger.std THEN 1 ELSE 0)

\* Record r has been executed by a worker and written to its backends.
Written(r) == \E w \in Workers : Count("exec", w, r.id) = 1 /\ WrittenBy(w, r)

C3_FlushInvoked ==
    \A t \in Threads :
        th[t].pc = "fl_ret" =>
            \E j \in 1..Len(events) :
                /\ events[j].op = "flush"
                /\ \A i \in Writes("file") : RecOf(events[i].id).src = t => i < j

\* C4 as claimed: whenever flush() returns, every record the calling thread
\* submitted before has been written to every handler.
C4_FlushFence_Original ==
    \A t \in Threads :
        th[t].pc \in {"fl_ret", "fl_skip"} => \A r \in SentBy(t) : Written(r)

\* The log buffer was enabled in worker w at position i of the history.
CaptureOn(w, i) ==
    LET toggles == {k \in 1..(i - 1) :
                       events[k].w = w /\ events[k].op \in {"EnableLogBuffer", "DisableLogBuffer"}}
    IN  /\ toggles # {}
        /\ events[CHOOSE k \in toggles : \A m \in toggles : m <= k].op = "EnableLogBuffer"

\* C4: when a flush() that found the logger enabled returns, every record
\* the calling thread submitted before has been written to every handler,
\* and pushed to the log buffer if the log buffer was enabled.
C4_FlushFence ==
    \A t \in Threads :
        th[t].pc = "fl_ret" =>
            \A r \in SentBy(t) :
                /\ Written(r)
                /\ \A i \in Executions(r) : CaptureOn(events[i].w, i) => r \in Range(captured)

\* flush() has returned after a record of the caller was written and pushed
\* to the log buffer, where it can be popped.
C4_Witness ==
    \E t \in Threads :
        /\ th[t].pc = "fl_ret"
        /\ \E r \in SentBy(t) : Written(r) /\ log_buffer = <<r>>

\* C5: when a Guard drop returns, every worker spawned before the drop began
\* has exited and every record enqueued before the drop began has been
\* written to the handlers.
C5_DropDrains ==
    \A t \in Threads :
        th[t].pc = "dr_ret" =>
            /\ \A w \in th[t].wsnap : workers[w].st = "done"
            /\ \A k \in 1..th[t].snap : Written(sent[k])

\* C6: a log() call made while the logger is disabled or the filter is None
\* enqueues nothing and causes no handler invocation, whatever the level.
C6_DisabledLogsNothing ==
    \A c \in calls :
        (~c.raw /\ (~c.en \/ c.flt = "None")) =>
            /\ ~Pending(c.rec)
            /\ c.rec \notin Range(sent)
            /\ InChan(c.rec) = 0
            /\ \A i \in 1..Len(events) : events[i].id # c.rec.id

\* An Error record was logged while the logger was disabled and a worker was
\* running.
C6_Witness ==
    \E c \in calls :
        /\ ~c.raw /\ ~c.en /\ c.rec.lvl = "Error"
        /\ \E w \in Workers : workers[w].st = "recv"

\* C7: a raw_log record is enqueued whatever the enabled flag and the filter
\* were at the call.
C7_RawLogUnfiltered ==
    \A c \in calls : c.raw => c.rec \in Range(sent)

\* A raw_log record that the filter would have refused, logged while the
\* logger was disabled, has been written to the handlers.
C7_Witness ==
    \E c \in calls :
        /\ c.raw /\ ~c.en /\ ~Admit(c.rec.lvl, c.flt)
        /\ Written(c.rec)

\* The order of the level filters as the claim states it.
ClaimOrder == <<"None", "Error", "Warn", "Info", "Debug", "Trace">>
Rank(l) == CHOOSE i \in 1..Len(ClaimOrder) : ClaimOrder[i] = l

\* C8: with the logger enabled, log() submits a record iff its level is at
\* most the filter current at the call, in the order Off < Error < Warn <
\* Info < Debug < Trace.
C8_FilterOrder ==
    \A c \in calls :
        (~c.raw /\ c.en) =>
            ((Pending(c.rec) \/ c.rec \in Range(sent)) <=> Rank(c.rec.lvl) <= Rank(c.flt))

\* After a set_filter, one record was dropped and another one delivered
\* under the new filter.
C8_Witness ==
    \E c, d \in calls :
        /\ ~c.raw /\ c.en /\ c.flt # "Info" /\ c.rec \notin Range(sent)
        /\ ~d.raw /\ d.en /\ d.flt = c.flt /\ Written(d.rec)

\* The step is a push of the worker into the log buffer.
IsPush == captured' # captured

\* C9: the log buffer never holds more than its capacity, and a push into a
\* full log buffer evicts exactly the oldest record and admits the new one.
C9_RingEvictsOldest ==
    /\ [](Len(log_buffer) <= BUF_SIZE)
    /\ [][IsPush =>
            LET new == captured'[Len(captured')] IN
                log_buffer' = IF Len(log_buffer) = BUF_SIZE
                                 THEN Append(Tail(log_buffer), new)
                                 ELSE Append(log_buffer, new)]_vars

\* The worker has pushed one record more than the capacity and nothing was
\* popped or cleared: the oldest record is gone.
C9_Witness ==
    /\ guards = 1
    /\ popped = <<>>
    /\ Len(captured) = BUF_SIZE + 1
    /\ log_buffer = Tail(captured)

PoppedRecs == SelectSeq(popped, LAMBDA r : r # NoRec)

CapturePos(r) == CHOOSE i \in 1..Len(captured) : captured[i] = r

\* The step is a read_log.
IsPop == popped' # popped

\* C10: read_log returns the oldest record of the log buffer and None when
\* it is empty, so the records popped, followed by those still in the log
\* buffer, are in the order the worker pushed them.
C10_PopOrder ==
    /\ [](LET s == PoppedRecs \o log_buffer IN
            /\ \A i \in 1..Len(s) : s[i] \in Range(captured)
            /\ \A i, j \in 1..Len(s) : i < j => CapturePos(s[i]) < CapturePos(s[j]))
    /\ [][IsPop =>
            LET got == popped'[Len(popped')] IN
                IF log_buffer = <<>>
                   THEN got = NoRec /\ log_buffer' = <<>>
                   ELSE got = Head(log_buffer) /\ log_buffer' = Tail(log_buffer)]_vars

\* Three records were pushed into a log buffer of capacity BUF_SIZE; the
\* pops returned the records after the evicted one, then None.
C10_Witness ==
    /\ Len(captured) = BUF_SIZE + 1
    /\ popped = Tail(captured) \o <<NoRec>>

IsCont(b) == 128 <= b /\ b <= 191

RECURSIVE ValidUtf8(_)
ValidUtf8(bytes) ==
    IF Len(bytes) = 0 THEN TRUE
    ELSE LET b == bytes[1]
             n == IF 0 <= b /\ b <= 127 THEN 1
                  ELSE IF 194 <= b /\ b <= 223 THEN 2
                  ELSE IF 224 <= b /\ b <= 239 THEN 3
                  ELSE IF 240 <= b /\ b <= 244 THEN 4
                  ELSE 0
         IN  /\ n > 0
             /\ Len(bytes) >= n
             /\ \A i \in 2..n : IsCont(bytes[i])
             /\ ValidUtf8(SubSeq(bytes, n + 1, Len(bytes)))

\* C12: after any sequence of write_str calls with valid UTF-8 strings,
\* including ones that overflow the capacity, the body is valid UTF-8.
C12_BodyValidUtf8 == ValidUtf8(msg(log_msg))

\* C13: write appends exactly the first min(len(buf), capacity - length)
\* bytes of buf and returns that count; the length never exceeds
\* LOG_MSG_SIZE, the body is the concatenation of the strings written cut at
\* the capacity, and a write on a full buffer returns 0 and changes nothing.
C13_WriteCutsAtCapacity ==
    /\ log_msg.msg_len <= LOG_MSG_SIZE
    /\ msg(log_msg) = msgCall.whole
    /\ msgCall.op = "write_str" =>
          LET old == msgCall.before
              n == Min(Len(msgCall.buf), LOG_MSG_SIZE - Len(msg(old)))
          IN  /\ msgCall.ret = n
              /\ msg(log_msg) = msg(old) \o SubSeq(msgCall.buf, 1, n)
              /\ Len(msg(old)) = LOG_MSG_SIZE => (msgCall.ret = 0 /\ log_msg = old)

\* A string was written that did not fit: a part of it was appended.
C13_Witness ==
    /\ msgCall.op = "write_str"
    /\ 0 < msgCall.ret
    /\ msgCall.ret < Len(msgCall.buf)
    /\ msgCall.before.msg_len > 0

\* C14: clear() empties the body and leaves location, level and time as
\* they were.
C14_ClearKeepsMetadata ==
    msgCall.op = "clear" =>
        /\ msg(log_msg) = <<>>
        /\ log_msg.location = msgCall.before.location
        /\ log_msg.level = msgCall.before.level
        /\ log_msg.time = msgCall.before.time

\* A message with a non-empty body and a replaced time was cleared.
C14_Witness ==
    /\ msgCall.op = "clear"
    /\ msgCall.before.msg_len > 0
    /\ msgCall.before.time = 1

\* C15: when a start has found that the previous worker panicked and has
\* sent the record "The logging thread has panicked!", the worker it spawned
\* delivers that record: it does not leave run() before executing it.
C15_PanicReported ==
    \A i \in 1..Len(events) :
        (events[i].op = "start_report" /\ workers[events[i].w].st = "done")
            => Count("exec", events[i].w, events[i].id) = 1

\* The step is worker w finishing the execution of a Log command.
ExecutesLog(w) ==
    /\ workers[w].st = "exec"
    /\ workers[w].cmd.type = "Log"
    /\ events' # events

\* C16: a file write error does not stop the worker: the error is reported
\* on the std backend as a record of the logger itself, the std backend
\* still receives the record, and the worker goes back to receiving
\* commands.
C16_ErrorDoesNotStopWorker ==
    /\ [](\A i \in 1..Len(events) :
            (events[i].op = "file" /\ ~events[i].ok /\ workers[events[i].w].logger.std)
                => /\ i + 2 <= Len(events)
                   /\ events[i + 1].op = "std" /\ events[i + 1].id = 0
                   /\ events[i + 1].w = events[i].w
                   /\ events[i + 2].op = "std" /\ events[i + 2].id = events[i].id
                   /\ events[i + 2].w = events[i].w)
    /\ [][\A w \in Workers : ExecutesLog(w) => workers'[w].st = "recv"]_vars

\* A file write failed for one record and the same worker executed another
\* record afterwards.
C16_Witness ==
    \E i, j \in 1..Len(events) :
        /\ i < j
        /\ events[i].op = "file" /\ ~events[i].ok
        /\ events[j].op = "exec" /\ events[j].w = events[i].w
        /\ Count("file", events[j].w, events[j].id) = 1

\* C17: the channel never holds more than BUF_SIZE commands; a record that
\* passed log()'s test stays with its producer until the channel has a free
\* slot and is then enqueued at the back: the producer never gives it up.
C17_Backpressure ==
    /\ [](Len(chan) <= BUF_SIZE)
    /\ [](\A c \in calls :
            (c.en /\ Admit(c.rec.lvl, c.flt))
                => \/ Pending(c.rec)
                   \/ InChan(c.rec) + InFlight(c.rec) + Cardinality(Executions(c.rec)) = 1)
    /\ [][\A t \in Threads :
            th[t].pc = "log_send" =>
                \/ th'[t] = th[t]
                \/ /\ Len(chan) < BUF_SIZE
                   /\ chan' = Append(chan, Command("Log", th[t].rec))
                   /\ th'[t].pc = "idle"]_vars

\* A record whose send found the channel full was enqueued later and
\* written by the worker.
C17_Witness ==
    \E r \in Range(sent) : r.id \in blocked /\ Written(r)

\* The workers that are in Thread::run.
Consumers == {w \in Workers : workers[w].st \in {"recv", "exec"}}

\* C18: whatever start and Guard drop calls the threads make, at most one
\* worker is consuming the channel, and a worker is spawned only when every
\* earlier worker has left run().
C18_OneConsumer ==
    /\ [](Cardinality(Consumers) <= 1)
    /\ [][Spawned' # Spawned => Consumers = {}]_vars

\* A second start made while the first Guard was alive has replaced the
\* worker: the first has exited, the second consumes.
C18_Witness ==
    /\ guards = 2
    /\ workers[1].st = "done"
    /\ Consumers = {2}

\* ------------------------------------------------------------------- C19
Installs == SelectSeq(hcalls, LAMBDA c : c.op = "install")

FirstWrite(i) == CHOOSE p \in 1..Len(hcalls) :
    /\ hcalls[p].op = "write" /\ hcalls[p].h = i
    /\ \A q \in 1..(p - 1) : ~(hcalls[q].op = "write" /\ hcalls[q].h = i)

HasWrite(i) == \E p \in 1..Len(hcalls) : hcalls[p].op = "write" /\ hcalls[p].h = i

\* C19: install is called at most once on each handler and in list order
\* (the k-th install call is made on the k-th handler), only by the worker
\* thread before it enters its loop, on every handler once the loop is
\* entered; a handler's first write comes after its install call, so every
\* write reads an installed handler.
C19_InstallOnceInOrder ==
    /\ \A k \in 1..Len(Installs) : Installs[k].h = k
    /\ Len(Installs) <= Len(handlers)
    /\ hworker.pc \in {"loop", "exit"} => Len(Installs) = Len(handlers)
    /\ hworker.pc = "build" => hcalls = <<>>
    /\ \A i \in 1..Len(handlers) :
          HasWrite(i) =>
              /\ \E q \in 1..(FirstWrite(i) - 1) : hcalls[q].op = "install" /\ hcalls[q].h = i
              /\ \A p \in 1..Len(hcalls) : hcalls[p].h = i => hcalls[p].init

\* C19 witness: two handlers, a std handler last, were installed and the std
\* handler printed a record.
C19_Witness ==
    /\ Len(handlers) = MaxHandlers
    /\ handlers[Len(handlers)].kind = "std"
    /\ Len(Installs) = Len(handlers)
    /\ \E p \in 1..Len(hcalls) :
          hcalls[p].op = "write" /\ hcalls[p].h = Len(handlers) /\ hcalls[p].out

\* The backend calls made by the step.
NewEvents == SubSeq(events', Len(events) + 1, Len(events'))

\* C20: when the worker writes a record, the std backend prints it iff
\* ENABLE_STDOUT is true at that moment, and the file backend receives the
\* record either way.
C20_StdoutFlag ==
    [][\A w \in Workers :
          ExecutesLog(w) =>
              /\ \A k \in 1..Len(NewEvents) :
                    NewEvents[k].op = "std" => (NewEvents[k].out <=> ENABLE_STDOUT)
              /\ \E k \in 1..Len(NewEvents) :
                    /\ NewEvents[k].op = "std"
                    /\ NewEvents[k].id = workers[w].cmd.rec.id
              /\ \E k \in 1..Len(NewEvents) :
                    /\ NewEvents[k].op = "file"
                    /\ NewEvents[k].id = workers[w].cmd.rec.id
                    /\ NewEvents[k].out]_vars

\* One record was written to the file but not printed, the flag being off,
\* and a later record was printed after the flag was set again.
C20_Witness ==
    \E i, j \in Writes("std") :
        /\ i < j
        /\ ~events[i].out
        /\ events[i - 1].op = "file" /\ events[i - 1].id = events[i].id /\ events[i - 1].out
        /\ events[j].out

\* ------------------------------------------------------------------- C21
\* C21: a write of the std handler (or std backend) that emits anything goes
\* to stderr iff smart_stderr is true and the level is Error, and to stdout
\* in every other case, whatever colors and the terminal are.
C21_StreamChoice ==
    (stdCall.by # "none" /\ stdCall.enabled) =>
        /\ stdCall.dest \in {"stderr", "stdout"}
        /\ stdCall.dest = "stderr" <=> (stdCall.smart_stderr /\ stdCall.level = "Error")

\* C21 witness: a Warn record was written to stdout by a std handler that has
\* smart_stderr set.
C21_Witness ==
    /\ stdCall.by = "StdHandler"
    /\ stdCall.smart_stderr
    /\ stdCall.level = "Warn"
    /\ stdCall.dest = "stdout"

\* ------------------------------------------------------------------- C24
\* C24: add_stdout appends a std handler built from the current colors and
\* smart_stderr at the end of the handler list, keeping the handlers already
\* there; colors() and smart_stderr() leave the list as it is. Stated for the
\* Builder of builder.rs and for the Logger of lib.rs.
C24_AddStdoutAppends ==
    [][/\ builder'.n # builder.n =>
            handlers' = CASE builder'.op = "add_stdout" ->
                                 Append(handlers, StdHandler_new(builder.smart_stderr,
                                                                 builder.colors))
                          [] builder'.op \in {"colors", "smart_stderr"} -> handlers
                          [] OTHER -> handlers'
       /\ logger'.n # logger.n =>
            LoggerHandlers(logger') =
                CASE logger'.op = "add_stdout" ->
                         Append(LoggerHandlers(logger),
                                StdHandler_new(logger.smart_stderr, logger.colors))
                  [] logger'.op \in {"colors", "smart_stderr"} -> LoggerHandlers(logger)
                  [] OTHER -> LoggerHandlers(logger')]_vars

\* ------------------------------------------------------------------- C22
\* The module as it is formatted: LoggerImpl::log applies unwrap_or("main")
\* to the Option that internal::extract_target_module returns.
ModuleUsed == unwrap_or(pathCall.module, main)

\* C22: for every module path p, if p contains "::" then the target is the
\* part before the first "::" and the module the part after it, so that
\* target + "::" + module = p; otherwise the target is p and the module is
\* "main".
C22_TargetModule ==
    pathCall.fn # "none" =>
        LET p == pathCall.base_string
            t == pathCall.target
            m == ModuleUsed
        IN IF \E v \in 1..Len(p) : SepAt(p, v)
              THEN /\ \A u \in 1..Len(t) : ~SepAt(p, u)
                   /\ SepAt(p, Len(t) + 1)
                   /\ t \o <<":", ":">> \o m = p
              ELSE t = p /\ m = main

\* C22 witness: a path with two "::" was split at the first one.
C22_Witness ==
    /\ pathCall.fn = "util"
    /\ pathCall.base_string = <<"a", ":", ":", "a", ":", ":">>
    /\ pathCall.target = <<"a">>
    /\ ModuleUsed = <<"a", ":", ":">>

\* ------------------------------------------------------------------- C23
\* C23: a write whose open failed writes nothing and reports nothing, leaves
\* the target without a handle, and the next write to that target attempts
\* the open again.
C23_OpenFailureRetried ==
    \A i \in 1..Len(fileCalls) :
        fileCalls[i].open = "err" =>
            /\ ~fileCalls[i].written
            /\ ~fileCalls[i].reported
            /\ ~fileCalls[i].handle
            /\ \A j \in (i + 1)..Len(fileCalls) :
                  (/\ fileCalls[j].target = fileCalls[i].target
                   /\ \A k \in (i + 1)..(j - 1) : fileCalls[k].target # fileCalls[i].target)
                  => fileCalls[j].open \in {"ok", "err"}

\* C23 witness: the open failed for a record of "app", a record of "lib" was
\* written, and the next record of "app" opened the file and was written.
C23_Witness ==
    /\ Len(fileCalls) = 3
    /\ fileCalls[1].target = "app" /\ fileCalls[1].open = "err"
    /\ fileCalls[2].target = "lib" /\ fileCalls[2].written
    /\ fileCalls[3].target = "app" /\ fileCalls[3].open = "ok" /\ fileCalls[3].written
    /\ file_handler.targets = {"app", "lib"}

\* ------------------------------------------------------------------- C25
\* Whether, among the first n calls that returned, one is an engine::set or
\* a use of the default engine.
Sealed(n) ==
    \E i \in 1..n :
        \/ ecalls[i].op = "set"
        \/ ecalls[i].op = "use" /\ ecalls[i].engine = VoidDebugger

\* C25: an engine::set call begun after an engine::set has returned, or after
\* a call on the default engine has returned, returns false and never
\* reaches its store to ENGINE.
C25_SetOnce ==
    /\ \A i \in 1..Len(ecalls) :
          (ecalls[i].op = "set" /\ Sealed(ecalls[i].seen)) => ~ecalls[i].ret
    /\ \A t \in Threads :
          (eth[t].op = "set" /\ Sealed(eth[t].seen)) => eth[t].pc = "idle"

\* C25 witness: E1 was installed by a set that returned true; a later set of
\* E2 returned false and E1 is still installed.
C25_Witness ==
    /\ Len(ecalls) = 2
    /\ ecalls[1].op = "set" /\ ecalls[1].engine = "E1" /\ ecalls[1].ret
    /\ ecalls[2].op = "set" /\ ecalls[2].engine = "E2" /\ ~ecalls[2].ret
    /\ ecalls[2].seen = 1
    /\ ENGINE = Ref("E1")

\* ------------------------------------------------------------------- C26
\* The position in evs of the last flush of the file backend that returned
\* Ok, 0 if there is none.
LastFlushOk(evs) ==
    LET F == {i \in 1..Len(evs) : evs[i].op = "flush" /\ evs[i].ok}
    IN  IF F = {} THEN 0 ELSE CHOOSE i \in F : \A j \in F : j <= i

\* The observable state of the sinks after the backend calls evs: the lines
\* that reached the files, the lines still in the BufWriters, and the lines
\* printed by the std backend.
SinkState(evs) ==
    LET n == LastFlushOk(evs)
        IsLine(e) == e.op = "file" /\ e.ok
        IsOut(e) == e.op = "std" /\ e.out
    IN  [disk |-> SelectSeq(SubSeq(evs, 1, n), IsLine),
         buffered |-> SelectSeq(SubSeq(evs, n + 1, Len(evs)), IsLine),
         std |-> SelectSeq(evs, IsOut)]

\* Worker w finishes the execution of a Flush command in this step.
ExecutesFlush(w) ==
    /\ workers[w].st = "exec"
    /\ workers[w].cmd.type = "Flush"
    /\ workers'[w].st = "recv"

\* The last command executed on a file backend was a Flush that returned Ok,
\* respectively a Flush that returned Err (reported on the std backend).
AfterFlushOk == events # <<>> /\ events[Len(events)].op = "flush" /\ events[Len(events)].ok

AfterFlushErr ==
    /\ Len(events) >= 2
    /\ events[Len(events)].op = "std" /\ events[Len(events)].id = 0
    /\ events[Len(events) - 1].op = "flush" /\ ~events[Len(events) - 1].ok

CallsFlush(t) ==
    /\ Idle(t)
    /\ budget'.flush < budget.flush
    /\ th'[t].pc \in {"fl_send", "fl_skip"}
    /\ \A u \in Threads \ {t} : th'[u] = th[u]

\* C27: a flush() called while the logger is disabled returns in the same
\* step: nothing is sent on the channel, no backend is called, and the
\* thread is back in its caller.
C27_FlushDisabledNoop ==
    [][\A t \in Threads :
          (CallsFlush(t) /\ ~enabled) =>
              /\ th'[t].pc = "fl_skip"
              /\ chan' = chan
              /\ events' = events
              /\ workers' = workers]_vars

\* C27 witness: flush() returned without sending while a worker was running
\* and the logger was not yet enabled.
C27_Witness ==
    /\ th[2].pc = "fl_skip"
    /\ ~enabled
    /\ thread # 0
    /\ workers[thread].st = "recv"
    /\ chan = <<>>
    /\ events = <<>>

\* ------------------------------------------------------------------- C28
\* Record r has been executed by a worker.
Executed(r) == Executions(r) # {}

\* The Flush a worker holds is the one thread t sent last in flush(): t waits
\* in flush() and no Flush of t is in the channel.
LastFlushOf(t) ==
    /\ th[t].pc = "fl_wait"
    /\ \A i \in 1..Len(chan) : ~(chan[i].type = "Flush" /\ chan[i].rec.src = t)

\* C28: when the worker executes the Flush command of a flush() call, every
\* record enqueued before that Flush has been executed and no record
\* enqueued after it has.
C28_CommandOrder ==
    [][\A w \in Workers :
          (ExecutesFlush(w) /\ LastFlushOf(workers[w].cmd.rec.src)) =>
              LET n == th[workers[w].cmd.rec.src].snap IN
                  /\ \A k \in 1..n : Executed(sent[k])
                  /\ \A k \in (n + 1)..Len(sent) : ~Executed(sent[k])]_vars

\* C28 witness: a record was executed, then the Flush of flush(), then a
\* record that thread 1 enqueued after that Flush.
C28_Witness ==
    \E i, j, k \in 1..Len(events) :
        /\ i < j /\ j < k
        /\ events[i].op = "exec" /\ events[j].op = "flush" /\ events[k].op = "exec"
        /\ events[i].id # events[k].id
        /\ th[2].pc = "fl_ret" /\ th[2].snap = 1
        /\ SentPos(events[i].id) = 1
        /\ SentPos(events[k].id) = 2

\* ------------------------------------------------------- Guard drop, shutdown
\* Thread 1 starts the logger and drops its Guards (two Guards may be alive,
\* so a drop can find no handle); thread 2 enqueues records and enables the
\* log buffer.
InitShut == InitWith(Budget(ShutStarts, ShutRecs, 0, ShutToggle, 0, 0, 0))

NextShut ==
    \/ WorkerStep
    \/ Lifecycle(1, {Both})
    \/ raw_log(2, "Error")
    \/ enable_log_buffer(2)

SpecShut == InitShut /\ [][NextShut]_vars

\* Thread t, inside a Guard drop, appends the control command of this type to
\* the channel.
Sends(t, type) ==
    /\ th[t].pc \in {"dr_lock", "dr_term", "dr_join", "dr_disbuf", "dr_clear"}
    /\ th[t].pc # th'[t].pc
    /\ chan' = Append(chan, Ctl(type, t))

\* C29: a Guard drop first disables filtered logging, then terminate enqueues
\* Flush, then Terminate, then joins the worker; Flush and Terminate are
\* enqueued only when a worker handle exists, and with no handle terminate
\* enqueues nothing.
C29_ShutdownOrder ==
    [][\A t \in Threads :
        /\ (Idle(t) /\ th'[t].pc = "dr_lock") => (~enabled' /\ chan' = chan)
        /\ Sends(t, "Flush") =>
              /\ th[t].pc = "dr_lock" /\ th'[t].pc = "dr_term"
              /\ ~enabled /\ thread # 0 /\ th'[t].h = thread
        /\ Sends(t, "Terminate") =>
              /\ th[t].pc = "dr_term" /\ th'[t].pc = "dr_join"
              /\ ~enabled /\ th[t].h # 0 /\ workers[th[t].h].st # "done"
        /\ th'[t].pc = "dr_term" => Sends(t, "Flush") \/ th[t].pc = "dr_term"
        /\ th'[t].pc = "dr_join" => Sends(t, "Terminate") \/ th[t].pc = "dr_join"
        /\ (th[t].pc = "dr_join" /\ th'[t].pc # "dr_join") =>
              /\ workers[th[t].h].st = "done"
              /\ chan' = chan /\ th'[t].pc = "dr_disbuf"
        /\ (th[t].pc = "dr_lock" /\ th'[t].pc # "dr_lock" /\ thread = 0) =>
              /\ chan' = chan /\ th'[t].pc = "dr_disbuf"
      ]_vars

\* C29 witness: a drop that found the handle has joined its worker, which
\* executed the Flush, and a later drop found no handle and sent nothing.
C29_Witness ==
    /\ th[1].pc = "dr_disbuf" /\ th[1].h = 0
    /\ guards = 0 /\ ~enabled
    /\ \A i \in 1..Len(chan) : chan[i].type = "DisableLogBuffer"
    /\ \E w \in Workers : workers[w].st = "done"
    /\ \E i \in 1..Len(events) : events[i].op = "flush"

Opens(target) ==
    {i \in 1..Len(fileCalls) : fileCalls[i].target = target /\ fileCalls[i].open = "ok"}

\* C31: the file sink holds at most one open handle per target: a target is
\* opened at most once, every write to it after the open reuses the stored
\* handle without opening, and a stored handle is never removed.
C31_OneHandlePerTarget ==
    \A target \in FileTargets :
        /\ Cardinality(Opens(target)) <= 1
        /\ (target \in file_handler.targets) = (Opens(target) # {})
        /\ \A i \in Opens(target) : \A j \in (i + 1)..Len(fileCalls) :
               fileCalls[j].target = target =>
                   fileCalls[j].open = "none" /\ fileCalls[j].handle

\* C31 witness: a target was opened by one write and written again twice
\* through the stored handle.
C31_Witness ==
    /\ Len(fileCalls) = 3
    /\ \A i \in 1..3 : fileCalls[i].target = "app" /\ fileCalls[i].written
    /\ fileCalls[1].open = "ok"
    /\ fileCalls[3].open = "none"
    /\ file_handler.targets = {"app"}

\* ---------------------------------------------------- termination of calls
\* Thread 1 starts the logger and drops its Guards; thread 2 enqueues records
\* and calls flush(). Every thread that can take a step eventually takes
\* one: the worker, the thread inside start or drop, the thread inside
\* flush().
InitLive == InitWith(Budget(LiveStarts, LiveRecs, LiveFlush, 0, 0, 0, 0))

Producer(t) ==
    \/ raw_log(t, "Error")
    \/ flush_check(t)
    \/ flush_send(t)
    \/ flush_wait(t)

NextLive ==
    \/ WorkerStep
    \/ Lifecycle(1, {StdOnly})
    \/ Producer(2)

SpecLive ==
    /\ InitLive /\ [][NextLive]_vars
    /\ WF_vars(WorkerStep)
    /\ WF_vars(Lifecycle(1, {StdOnly}))
    /\ WF_vars(Producer(2))

\* C32: every flush() call eventually returns, whatever the other producers
\* and start / Guard drop on other threads do.
C32_FlushReturns ==
    \A t \in Threads :
        (th[t].pc \in {"fl_send", "fl_wait"}) ~> (th[t].pc = "fl_ret")

\* C33: every Guard drop eventually returns, after any sequence of start and
\* Guard drop calls.
C33_DropReturns ==
    \A t \in Threads :
        (th[t].pc \in {"dr_lock", "dr_term", "dr_join", "dr_disbuf", "dr_clear"})
            ~> (th[t].pc = "dr_ret")

\* ------------------------------------------------------ Guards and worker
\* C34: while at least one Guard returned by start is alive (and no start
\* or drop call is in progress), the logger is enabled and a worker thread is
\* running.
C34_GuardKeepsLogger ==
    (guards > 0 /\ \A t \in Threads : Idle(t)) =>
        /\ enabled
        /\ thread # 0
        /\ workers[thread].st \notin {"none", "done"}

\* ------------------------------------------- commands across a restart
\* Thread 1 runs with_logger several times; both threads enqueue records at
\* any time, also while no worker is running.
InitRestart == InitWith(Budget(RestartStarts, RestartRecs, 0, 0, 0, 0, 0))

NextRestart ==
    \/ WorkerStep
    \/ Owner(1, {StdOnly})
    \/ \E t \in Threads : raw_log(t, "Error")

SpecRestart == InitRestart /\ [][NextRestart]_vars

\* The records executed so far, in the order of their execution.
ExecSeq == SelectSeq(events, LAMBDA e : e.op = "exec")

\* The records executed are the first records enqueued, in the same order.
ExecutedInOrder ==
    /\ Len(ExecSeq) <= Len(sent)
    /\ \A i \in 1..Len(ExecSeq) : ExecSeq[i].id = sent[i].id

\* The newest worker receives the command at the head of the channel.
Receives(w) ==
    /\ chan # <<>>
    /\ chan' = Tail(chan)
    /\ workers[w].st = "recv"
    /\ workers'[w].st = "exec"
    /\ workers'[w].cmd = Head(chan)
    /\ \A v \in Spawned : v <= w

\* Worker w executes the command it received.
Executes(w) ==
    LET cmd == workers[w].cmd IN
        /\ cmd.type = "Log" => events'[Len(events) + 1] = Ev("exec", w, cmd.rec.id, TRUE)
        /\ cmd.type = "DisableLogBuffer" =>
               events'[Len(events) + 1] = Ev("DisableLogBuffer", w, 0, TRUE)
        /\ cmd.type = "Terminate" => workers'[w].st = "done"

\* C35: no enqueued command is lost across a worker shutdown or restart: the
\* channel changes only by a send at its tail or by the newest worker
\* receiving its head, every received command is executed by the worker that
\* received it, and the records are executed in the order they were enqueued
\* whichever worker executes them.
C35_NoCommandLost ==
    /\ []ExecutedInOrder
    /\ [][/\ \/ chan' = chan
            \/ /\ Len(chan') = Len(chan) + 1
               /\ SubSeq(chan', 1, Len(chan)) = chan
            \/ \E w \in Workers : Receives(w)
          /\ \A w \in Workers :
                (workers[w].st = "exec" /\ workers'[w].st # "exec") => Executes(w)
       ]_vars

\* C35 witness: the second worker executed a record and then the
\* DisableLogBuffer that the drop of the first Guard enqueued after its worker
\* had exited; the first worker executed nothing.
C35_Witness ==
    /\ workers[1].st = "done"
    /\ Len(events) = 3
    /\ events[1].op = "exec" /\ events[1].w = 2
    /\ events[2].op = "std" /\ events[2].id = events[1].id
    /\ events[3].op = "DisableLogBuffer" /\ events[3].w = 2

\* ------------------------------------------------- disable_log_buffer
\* Thread 1 owns the logger, enables and disables the log buffer; thread 2
\* sends records.
InitDisable == InitWith(Budget(MaxStarts, DisableRecs, 0, DisableToggle, 0, 0, 0))

NextDisable ==
    \/ WorkerStep
    \/ Owner(1, {StdOnly})
    \/ enable_log_buffer(1)
    \/ disable_log_buffer(1)
    \/ raw_log(2, "Info")

SpecDisable == InitDisable /\ [][NextDisable]_vars

Toggles == {"EnableLogBuffer", "DisableLogBuffer"}

\* The types of the toggle commands issued so far, oldest first: those
\* executed, the one a worker is executing, those in the channel.
ToggleSeq ==
    LET done == SelectSeq(events, LAMBDA e : e.op \in Toggles)
        cur == {w \in Workers : workers[w].st = "exec" /\ workers[w].cmd.type \in Toggles}
        wait == SelectSeq(chan, LAMBDA c : c.type \in Toggles)
    IN  [i \in 1..Len(done) |-> done[i].op]
            \o (IF cur = {} THEN <<>> ELSE <<workers[CHOOSE w \in cur : TRUE].cmd.type>>)
            \o [i \in 1..Len(wait) |-> wait[i].type]

\* C36: after disable_log_buffer() has returned, and as long as
\* enable_log_buffer() is not called again, the log buffer is empty (stated
\* while the Guard is alive, so that the last toggle is not the one of
\* Guard::drop).
C36_DisableLeavesEmpty ==
    (/\ guards > 0
     /\ ToggleSeq # <<>>
     /\ ToggleSeq[Len(ToggleSeq)] = "DisableLogBuffer"
     /\ \A t \in Threads : th[t].pc # "db_clear")
        => log_buffer = <<>>

\* ------------------------------------------------- concurrent engine::set
\* The engine::set calls that returned true.
Winners == {i \in 1..Len(ecalls) : ecalls[i].op = "set" /\ ecalls[i].ret}

\* C37: across any interleaving of concurrent engine::set calls at most one
\* returns true, and once no set is in progress ENGINE is the engine that
\* call installed.
C37_OneSetWins ==
    /\ Cardinality(Winners) <= 1
    /\ \A i \in Winners :
          (\A t \in Threads : eth[t].op # "set") => ENGINE = Ref(ecalls[i].engine)

\* ------------------------------------------------------------- trace spans
TCall(op, id, by) == [op |-> op, id |-> id, by |-> by]

\* Span::new: span_create on the engine returns the instance of the span.
Span_new ==
    /\ nextInstance <= MaxSpans
    /\ tcalls' = Append(tcalls, TCall("span_create", nextInstance, "span"))
    /\ spans' = spans \cup {nextInstance}
    /\ nextInstance' = nextInstance + 1
    /\ UNCHANGED <<entereds, traced>>
    /\ UNCHANGED <<core, hstate, cfgstate, pathCall, filestate, enginestate>>

\* The span_exit calls made by the Entered values of span id that the
\* application dropped.
EnteredExits(id) ==
    Cardinality({i \in 1..Len(tcalls) : tcalls[i] = TCall("span_exit", id, "entered")})

\* Span::enter: an Entered with the id of the span; it borrows nothing from
\* the Span and no engine call is made.
enter(id) ==
    /\ id \in spans
    /\ entereds[id] + EnteredExits(id) < MaxEnters
    /\ entereds' = [entereds EXCEPT ![id] = @ + 1]
    /\ UNCHANGED <<spans, traced, tcalls, nextInstance>>
    /\ UNCHANGED <<core, hstate, cfgstate, pathCall, filestate, enginestate>>

\* Drop for Entered: span_exit(id).
Entered_drop(id) ==
    /\ entereds[id] > 0
    /\ entereds' = [entereds EXCEPT ![id] = @ - 1]
    /\ tcalls' = Append(tcalls, TCall("span_exit", id, "entered"))
    /\ UNCHANGED <<spans, traced, nextInstance>>
    /\ UNCHANGED <<core, hstate, cfgstate, pathCall, filestate, enginestate>>

\* Drop for Span: span_destroy(id).
Span_drop(id) ==
    /\ id \in spans
    /\ spans' = spans \ {id}
    /\ tcalls' = Append(tcalls, TCall("span_destroy", id, "span"))
    /\ UNCHANGED <<entereds, traced, nextInstance>>
    /\ UNCHANGED <<core, hstate, cfgstate, pathCall, filestate, enginestate>>

\* Trace::trace(self, span): the wrapper holds Some(span.enter()); span, taken
\* by value, is dropped when trace returns.
trace(id) ==
    /\ traced.st = "none"
    /\ id \in spans
    /\ traced' = [st |-> "pending", span |-> Some(id), polls |-> 0]
    /\ spans' = spans \ {id}
    /\ tcalls' = Append(tcalls, TCall("span_destroy", id, "span"))
    /\ UNCHANGED <<entereds, nextInstance>>
    /\ UNCHANGED <<core, hstate, cfgstate, pathCall, filestate, enginestate>>

\* A wrong poll: the Entered is dropped whatever the inner future returns.
poll_exit(ready) ==
    /\ traced.st = "pending"
    /\ traced.polls < MaxPolls
    /\ traced' = [st |-> IF ready THEN "ready" ELSE "pending", span |-> None,
                  polls |-> traced.polls + 1]
    /\ tcalls' = tcalls \o [i \in 1..Len(traced.span) |->
                                TCall("span_exit", traced.span[i], "future")]
    /\ UNCHANGED <<spans, entereds, nextInstance>>
    /\ UNCHANGED <<core, hstate, cfgstate, pathCall, filestate, enginestate>>

\* TracedFuture::poll: polls the inner future; if it is ready,
\* drop(self.span.take()).
poll(ready) ==
    /\ traced.st = "pending"
    /\ traced.polls < MaxPolls
    /\ IF ready
          THEN /\ traced' = [st |-> "ready", span |-> None, polls |-> traced.polls + 1]
               /\ tcalls' = tcalls \o [i \in 1..Len(traced.span) |->
                                           TCall("span_exit", traced.span[i], "future")]
          ELSE /\ traced' = [traced EXCEPT !.polls = @ + 1]
               /\ tcalls' = tcalls
    /\ UNCHANGED <<spans, entereds, nextInstance>>
    /\ UNCHANGED <<core, hstate, cfgstate, pathCall, filestate, enginestate>>

\* The TracedFuture is dropped: its span field, if still Some, is dropped.
TracedFuture_drop ==
    /\ traced.st \in {"pending", "ready"}
    /\ traced' = [traced EXCEPT !.st = "dropped", !.span = None]
    /\ tcalls' = tcalls \o [i \in 1..Len(traced.span) |->
                                TCall("span_exit", traced.span[i], "future")]
    /\ UNCHANGED <<spans, entereds, nextInstance>>
    /\ UNCHANGED <<core, hstate, cfgstate, pathCall, filestate, enginestate>>

\* Trace specification: spans are created, entered and dropped; one span is
\* handed to Future::trace and the wrapper is polled and dropped.
InitTrace == InitWith(Budget(0, 0, 0, 0, 0, 0, 0))

NextTrace ==
    \/ Span_new
    \/ \E id \in SpanIds : enter(id)
    \/ \E id \in SpanIds : Entered_drop(id)
    \/ \E id \in SpanIds : Span_drop(id)
    \/ \E id \in SpanIds : trace(id)
    \/ \E ready \in BOOLEAN : poll(ready)
    \/ TracedFuture_drop

SpecTrace == InitTrace /\ [][NextTrace]_vars

\* The span_exit calls the TracedFuture has made.
FutureExits == Cardinality({i \in 1..Len(tcalls) : tcalls[i].by = "future"})

\* C38: for a future wrapped by trace(span), span_exit is invoked exactly
\* once: none while every poll returned Pending, one once a poll returned
\* Ready or the wrapper was dropped, and the wrapper then holds no Entered.
C38_ExitOnce ==
    /\ traced.st \in {"none", "pending"} => FutureExits = 0
    /\ traced.st = "pending" => traced.span # None
    /\ traced.st \in {"ready", "dropped"} => FutureExits = 1 /\ traced.span = None

\* C38 witness: the wrapper was polled Pending, then Ready, then dropped,
\* and span_exit was called once.
C38_Witness ==
    /\ traced.st = "dropped"
    /\ traced.polls = 2
    /\ FutureExits = 1

\* C39: for every span id, span_exit is never invoked after span_destroy.
C39_NoExitAfterDestroy ==
    \A i, j \in 1..Len(tcalls) :
        (i < j /\ tcalls[i].op = "span_destroy" /\ tcalls[j].op = "span_exit")
            => tcalls[i].id # tcalls[j].id

====
